---- MODULE Spec2Model ----
(***************************************************************************)
(* The CAD-to-mesh pipeline of belt-builder-backend: CADProcessor and      *)
(* process_cad_file, in its two variants                                   *)
(*   "backend": src/backend/cad_processing/utils.py                        *)
(*   "root":    src/cad_processing/utils.py                                *)
(*                                                                         *)
(* Lengths are integers in half units (1.0 is 2, 0.5 is 1); a volume is    *)
(* the sum of the triangles' determinants in those units, so 1.0 is 48.    *)
(* Calls into trimesh, pythonocc and the conversion service are steps      *)
(* whose result ranges over the outcomes the library can produce.          *)
(*                                                                         *)
(* The callers of the pipeline follow: the upload and update views, the    *)
(* post_save handler and the Celery task of src/backend/components, and    *)
(* the save operation of src/backend/projects.                             *)
(***************************************************************************)
EXTENDS Integers, Sequences, FiniteSets, TLC

VARIABLES
    variant,                \* which utils.py is deployed
    TRIMESH_AVAILABLE,      \* import trimesh succeeded
    PYTHONOCC_AVAILABLE,    \* import OCC succeeded
    CLOUDCONVERT_API_KEY,   \* settings.CLOUDCONVERT_API_KEY is set
    fs,                     \* path -> file content
    dirs,                   \* the directories that exist
    pc,                     \* position inside process_cad_file
    calls,                  \* invocations started so far
    arg_path,               \* process_cad_file(file_path, ...)
    extract_geometry,       \* process_cad_file(..., extract_geometry, ...)
    copy_glb_to,            \* process_cad_file(..., copy_glb_to)
    file_path,              \* CADProcessor.file_path
    mesh,                   \* CADProcessor.mesh
    geometry_data,          \* CADProcessor.geometry_data
    converted,              \* CADProcessor._converted_step_file
    original_mesh,          \* convert_to_glb's local original_mesh
    result,                 \* the dict process_cad_file returns
    raised,                 \* the exception that left process_cad_file
    hist,                   \* what the current invocation did (observation only)
    backend,                \* the convert_step_via_* function a caller has entered
    step_file_path,         \* its argument step_file_path
    clock,                  \* seconds since that function was entered
    start_time,             \* convert_step_via_cloudconvert's start_time, on that clock
    download_url,           \* convert_step_via_cloudconvert's download_url is set
    returned,               \* the path the function returned
    connected,              \* handle_component_post_save is among post_save's receivers
    db,                     \* the committed Component rows, by id
    req,                    \* the HTTP requests being served, one thread each
    task,                   \* the process_component_async tasks, by component id
    runs,                   \* who ran the pipeline on each component (observation only)
    assembly,               \* the AssemblyItem rows of one project: id -> position_x
    saved                   \* the last save request and its response (observation only)

vars == <<variant, TRIMESH_AVAILABLE, PYTHONOCC_AVAILABLE, CLOUDCONVERT_API_KEY,
          fs, dirs, pc, calls, arg_path, extract_geometry, copy_glb_to,
          file_path, mesh, geometry_data, converted, original_mesh, result, raised,
          hist, backend, step_file_path, clock, start_time, download_url, returned,
          connected, db, req, task, runs, assembly, saved>>

env == <<variant, TRIMESH_AVAILABLE, PYTHONOCC_AVAILABLE, CLOUDCONVERT_API_KEY>>

\* the locals of a convert_step_via_* function called on its own
conv == <<backend, step_file_path, clock, start_time, download_url, returned>>

\* the components application: the signal registry, the table, requests and tasks
web == <<connected, db, req, task, runs>>

\* the projects application: one project's assembly items
proj == <<assembly, saved>>

(***************************************************************************)
(* Bounds and program constants                                            *)
(***************************************************************************)
\* invocations of process_cad_file in one run
MaxCalls == 2

\* how many triangles the over-budget test mesh has above the target
ExtraFaces == 1

\* target_faces / target_face_count
target_faces == 500

\* max_wait = 300  # 5 minutes
max_wait == 300

\* time.sleep(2) between two polls of a job that is still running
poll_sleep == 2

\* requests.get(status_url, headers=headers, timeout=30)
status_timeout == 30

\* the timeout of the upload and of the download request
transfer_timeout == 300

(***************************************************************************)
(* Points and triangles                                                    *)
(***************************************************************************)
Add(p, q) == <<p[1] + q[1], p[2] + q[2], p[3] + q[3]>>

Abs(x) == IF x < 0 THEN -x ELSE x

Leq3(p, q) == p[1] <= q[1] /\ p[2] <= q[2] /\ p[3] <= q[3]

Det(a, b, c) ==
    a[1] * (b[2] * c[3] - b[3] * c[2])
  - a[2] * (b[1] * c[3] - b[3] * c[1])
  + a[3] * (b[1] * c[2] - b[2] * c[1])

RECURSIVE SumRange(_, _, _)
SumRange(s, lo, hi) ==
    IF lo > hi THEN 0
    ELSE IF lo = hi THEN s[lo]
    ELSE LET mid == (lo + hi) \div 2 IN SumRange(s, lo, mid) + SumRange(s, mid + 1, hi)

SumSeq(s) == SumRange(s, 1, Len(s))

(***************************************************************************)
(* Geometry values, as trimesh.load hands them out                         *)
(***************************************************************************)
NoGraph == <<>>

\* a triangle list is kept by its period: it has n triangles, the i-th being
\* cycle[((i - 1) % Len(cycle)) + 1]; a list written out in full is its own period
Faces(c, k) == [cycle |-> c, n |-> k]

Explicit(tris) == Faces(tris, Len(tris))

NoFaces == Explicit(<<>>)

\* len(mesh.faces)
NumFaces(m) == m.faces.n

\* mesh.faces[i]
Face(m, i) == m.faces.cycle[((i - 1) % Len(m.faces.cycle)) + 1]

\* the first k triangles of a list
FirstFaces(f, k) == IF k = 0 THEN NoFaces ELSE Faces(f.cycle, k)

\* the triangles of a list, as a set
FaceSet(f) ==
    {f.cycle[i] : i \in 1..(IF f.n < Len(f.cycle) THEN f.n ELSE Len(f.cycle))}

\* the sum over the triangles of a list of a quantity w, given for each
\* triangle of the period: whole periods, then the rest
FaceSum(f, w) ==
    IF f.n = 0 THEN 0
    ELSE (f.n \div Len(f.cycle)) * SumSeq(w)
         + SumSeq([i \in 1..(f.n % Len(f.cycle)) |-> w[i]])

NoneMesh == [kind |-> "None", vertices |-> <<>>, faces |-> NoFaces, graph |-> NoGraph]

Trimesh(vs, f) == [kind |-> "Trimesh", vertices |-> vs, faces |-> f, graph |-> NoGraph]

PointCloud(vs) == [kind |-> "PointCloud", vertices |-> vs, faces |-> NoFaces, graph |-> NoGraph]

\* a scene: graph is a sequence of nodes [transform, geometry], the geometry
\* already looked up in the scene's geometry table
Scene(nodes) == [kind |-> "Scene", vertices |-> <<>>, faces |-> NoFaces, graph |-> nodes]

CubeVertices(o, s) ==
    << Add(o, <<0, 0, 0>>), Add(o, <<s, 0, 0>>), Add(o, <<s, s, 0>>), Add(o, <<0, s, 0>>),
       Add(o, <<0, 0, s>>), Add(o, <<s, 0, s>>), Add(o, <<s, s, s>>), Add(o, <<0, s, s>>) >>

\* twelve triangles, wound counter-clockwise seen from outside
CubeFaces ==
    << <<1, 3, 2>>, <<1, 4, 3>>, <<5, 6, 7>>, <<5, 7, 8>>,
       <<1, 2, 6>>, <<1, 6, 5>>, <<4, 8, 7>>, <<4, 7, 3>>,
       <<1, 5, 8>>, <<1, 8, 4>>, <<2, 3, 7>>, <<2, 7, 6>> >>

Flip(f) == <<f[1], f[3], f[2]>>

\* n triangles over the cube's vertices (the cube's faces, repeated)
RepeatedFaces(n) == Faces(CubeFaces, n)

UnitCube == Trimesh(CubeVertices(<<0, 0, 0>>, 2), Explicit(CubeFaces))

\* a cube away from the origin, wound inside out
FarCube == Trimesh(CubeVertices(<<4, 4, 4>>, 2), Explicit([i \in 1..12 |-> Flip(CubeFaces[i])]))

ExactMesh == Trimesh(CubeVertices(<<4, 4, 4>>, 2), RepeatedFaces(target_faces))

BigMesh == Trimesh(CubeVertices(<<4, 4, 4>>, 2), RepeatedFaces(target_faces + ExtraFaces))

\* vertices that no triangle references
LooseMesh == Trimesh(<< <<6, 6, 6>>, <<8, 6, 6>> >>, NoFaces)

EmptyMesh == Trimesh(<<>>, NoFaces)

Points == PointCloud(<< <<6, 6, 6>>, <<8, 8, 8>> >>)

Triangle == Trimesh(<< <<0, 0, 0>>, <<2, 0, 0>>, <<0, 2, 0>> >>, Explicit(<< <<1, 2, 3>> >>))

TwoNodeScene ==
    Scene(<< [transform |-> <<0, 0, 0>>, geometry |-> Triangle],
             [transform |-> <<6, 0, 0>>, geometry |-> Triangle],
             [transform |-> <<0, 0, 0>>, geometry |-> Points] >>)

NoMeshScene == Scene(<< [transform |-> <<0, 0, 0>>, geometry |-> Points] >>)

(***************************************************************************)
(* What trimesh computes from a geometry                                   *)
(***************************************************************************)
None == <<>>

\* the vertices a geometry's bounds are taken over: for a Trimesh only the
\* vertices some triangle references, for a scene those of every node
RECURSIVE BoundedVertices(_)
BoundedVertices(m) ==
    CASE m.kind = "Trimesh" ->
            {m.vertices[f[k]] : f \in FaceSet(m.faces), k \in 1..3}
      [] m.kind = "PointCloud" -> {m.vertices[i] : i \in DOMAIN m.vertices}
      [] m.kind = "Scene" ->
            UNION {{Add(m.graph[i].transform, v) : v \in BoundedVertices(m.graph[i].geometry)}
                     : i \in DOMAIN m.graph}
      [] OTHER -> {}

AllVertices(m) == {m.vertices[i] : i \in DOMAIN m.vertices}

SetMin(S) == CHOOSE x \in S : \A y \in S : x <= y

SetMax(S) == CHOOSE x \in S : \A y \in S : x >= y

\* mesh.bounds: None when nothing is referenced, else <<min, max>>
Bounds(m) ==
    LET V == BoundedVertices(m) IN
    IF V = {} THEN None
    ELSE << [k \in 1..3 |-> SetMin({v[k] : v \in V})],
            [k \in 1..3 |-> SetMax({v[k] : v \in V})] >>

\* mesh.volume: the signed volume (sum of the triangles' determinants)
Volume(m) ==
    FaceSum(m.faces,
            [i \in DOMAIN m.faces.cycle |->
                LET t == m.faces.cycle[i]
                IN  Det(m.vertices[t[1]], m.vertices[t[2]], m.vertices[t[3]])])

\* hasattr(mesh, 'volume')
HasVolume(m) == m.kind = "Trimesh"

\* hasattr(mesh, 'bounds')
HasBounds(m) == m.kind \in {"Trimesh", "PointCloud", "Scene"}

\* mesh.centroid: the mean of the triangles' centres (trimesh weights them by
\* area; the test meshes' triangles have equal areas), for other geometry the
\* centre of the bounds
Centroid(m) ==
    IF m.kind = "Trimesh" /\ NumFaces(m) > 0
    THEN [k \in 1..3 |->
            FaceSum(m.faces,
                    [i \in DOMAIN m.faces.cycle |->
                        LET t == m.faces.cycle[i]
                        IN  m.vertices[t[1]][k] + m.vertices[t[2]][k] + m.vertices[t[3]][k]])
            \div (3 * NumFaces(m))]
    ELSE [k \in 1..3 |-> (Bounds(m)[1][k] + Bounds(m)[2][k]) \div 2]

Shift(f, n) == <<f[1] + n, f[2] + n, f[3] + n>>

\* trimesh.util.concatenate(mesh_list): vertex buffers appended, triangle
\* indices offset by the vertices already placed
RECURSIVE Concatenate(_)
Concatenate(ms) ==
    IF Len(ms) = 1 THEN ms[1]
    ELSE LET head == Concatenate(SubSeq(ms, 1, Len(ms) - 1))
             last == ms[Len(ms)]
         IN  Trimesh(head.vertices \o last.vertices,
                     Explicit([i \in 1..NumFaces(head) |-> Face(head, i)]
                              \o [i \in 1..NumFaces(last) |->
                                    Shift(Face(last, i), Len(head.vertices))]))

IsTrimeshNode(n) == n.geometry.kind = "Trimesh"

\* the loop without the isinstance test: every node's geometry
MeshListUnfiltered(m) == [i \in DOMAIN m.graph |-> m.graph[i].geometry]

\* the loop over graph.nodes_geometry: geometry.copy() of every Trimesh node
MeshList(m) ==
    LET kept == SelectSeq(m.graph, IsTrimeshNode)
    IN  [i \in DOMAIN kept |-> kept[i].geometry]

\* "Handle scene (multiple meshes)": a scene with mesh nodes becomes their
\* concatenation, anything else is left as it is
FlattenScene(m) ==
    IF m.kind = "Scene" /\ MeshList(m) # <<>> THEN Concatenate(MeshList(m)) ELSE m

(***************************************************************************)
(* Paths and files                                                         *)
(***************************************************************************)
Path(d, st, sx) == [dir |-> d, stem |-> st, suffix |-> sx]

NoPath == Path("", "", "")

\* str.lower() on the suffixes that occur
Lower(sx) ==
    CASE sx = ".GLB" -> ".glb"
      [] sx = ".STL" -> ".stl"
      [] OTHER -> sx

\* the files present when the service starts, and one path with no file
InputPaths ==
    { Path("uploads", "cube", ".glb"),   Path("uploads", "big", ".GLB"),
      Path("uploads", "scene", ".gltf"), Path("uploads", "lights", ".glb"),
      Path("uploads", "cube", ".STL"),   Path("uploads", "far", ".stl"),
      Path("uploads", "exact", ".stl"),  Path("uploads", "big", ".obj"),
      Path("uploads", "loose", ".obj"),  Path("uploads", "empty", ".stl"),
      Path("uploads", "points", ".obj"), Path("uploads", "bad", ".stl"),
      Path("uploads", "part", ".step"),  Path("uploads", "rev", ".stp"),
      Path("uploads", "bad", ".step"),   Path("uploads", "cube", ".ply"),
      Path("uploads", "gone", ".stl"),   Path("archive", "part", ".step") }

\* "out" exists and is writable, "new" does not exist yet, "ro" exists and
\* cannot be written
OutputPaths ==
    { Path("out", "model", ".glb"), Path("new", "model", ".glb"), Path("ro", "model", ".glb") }

\* Path(tempfile.gettempdir()) / 'step_converter' / f"{stem}_converted.stl":
\* the name is a function of the input's stem alone
ConvertedPath(p) == Path("tmp/step_converter", p.stem, ".stl")

AllPaths == InputPaths \cup OutputPaths \cup {ConvertedPath(p) : p \in InputPaths}

ReadOnlyDirs == {"ro"}

\* a file's bytes: who wrote them and what they encode
File(g, i, m) == [gen |-> g, id |-> i, geom |-> m]

Absent == File("absent", "", NoneMesh)

Uploaded(i) == File("upload", i, NoneMesh)

\* a file of zero bytes
EmptyFile == File("empty", "", NoneMesh)

\* path.stat().st_size
Size(f) == IF f = EmptyFile THEN 0 ELSE 1

\* mesh.export(path, file_type='glb'): trimesh's encoding of the mesh in memory
ExportedGlb(m) == File("trimesh", "export", m)

InitialFiles ==
    [p \in AllPaths |->
        CASE p = Path("uploads", "cube", ".glb")   -> Uploaded("cubeScene")
          [] p = Path("uploads", "big", ".GLB")    -> Uploaded("bigScene")
          [] p = Path("uploads", "scene", ".gltf") -> Uploaded("twoNodeScene")
          [] p = Path("uploads", "lights", ".glb") -> Uploaded("noMeshScene")
          [] p = Path("uploads", "cube", ".STL")   -> Uploaded("cube")
          [] p = Path("uploads", "far", ".stl")    -> Uploaded("farCube")
          [] p = Path("uploads", "exact", ".stl")  -> Uploaded("exact")
          [] p = Path("uploads", "big", ".obj")    -> Uploaded("big")
          [] p = Path("uploads", "loose", ".obj")  -> Uploaded("loose")
          [] p = Path("uploads", "empty", ".stl")  -> Uploaded("empty")
          [] p = Path("uploads", "points", ".obj") -> Uploaded("points")
          [] p = Path("uploads", "bad", ".stl")    -> Uploaded("corrupt")
          [] p = Path("uploads", "part", ".step")  -> Uploaded("solid")
          [] p = Path("uploads", "rev", ".stp")    -> Uploaded("reversedSolid")
          [] p = Path("uploads", "bad", ".step")   -> Uploaded("corrupt")
          [] p = Path("uploads", "cube", ".ply")   -> Uploaded("cube")
          [] p = Path("archive", "part", ".step")  -> Uploaded("reversedSolid")
          [] OTHER -> Absent]

\* path.exists()
Exists(files, p) == p \in DOMAIN files /\ files[p] # Absent

\* what the bytes of a mesh file decode to (None: the parser rejects them)
Decode(f) ==
    CASE f.gen = "trimesh"       -> f.geom
      [] f.id = "cubeScene"      -> Scene(<< [transform |-> <<0, 0, 0>>, geometry |-> UnitCube] >>)
      [] f.id = "bigScene"       -> Scene(<< [transform |-> <<0, 0, 0>>, geometry |-> BigMesh] >>)
      [] f.id = "twoNodeScene"   -> TwoNodeScene
      [] f.id = "noMeshScene"    -> NoMeshScene
      [] f.id = "cube"           -> UnitCube
      [] f.id = "farCube"        -> FarCube
      [] f.id = "exact"          -> ExactMesh
      [] f.id = "big"            -> BigMesh
      [] f.id = "loose"          -> LooseMesh
      [] f.id = "empty"          -> EmptyMesh
      [] f.id = "points"         -> Points
      [] OTHER                   -> NoneMesh

\* the extensions trimesh has a loader for, among those that occur
TrimeshFormats == {".glb", ".gltf", ".stl", ".obj", ".ply"}

\* trimesh.load(str(path)): the geometry, or NoneMesh when it raises (unknown
\* file type, or contents the parser rejects)
TrimeshLoad(files, p) ==
    IF Lower(p.suffix) \in TrimeshFormats /\ Exists(files, p) THEN Decode(files[p]) ELSE NoneMesh

(***************************************************************************)
(* Geometry data                                                           *)
(***************************************************************************)
GeometryData(lo, hi, c, v, cps) ==
    [bounding_box |-> [min |-> lo, max |-> hi, center |-> c],
     volume |-> v, center |-> c, connection_points |-> cps]

\* geometry_data = {} and result['geometry_data'] = None
NoData == GeometryData(<<>>, <<>>, <<>>, 0, <<>>)

ConnectionPoint(pos, n, s) == [position |-> pos, normal |-> n, side |-> s]

\* a fallback record with volume 0.0
BasicDataZeroVolume == GeometryData(<<0, 0, 0>>, <<2, 2, 2>>, <<1, 1, 1>>, 0, <<>>)

\* _process_basic: the unit box, volume 1.0, no connection points
BasicData == GeometryData(<<0, 0, 0>>, <<2, 2, 2>>, <<1, 1, 1>>, 48, <<>>)

\* backend _extract_connection_points
ConnectionPointsBackend(bounds, center) ==
    << ConnectionPoint(bounds[1], <<0, 0, -1>>, "bottom"),
       ConnectionPoint(bounds[2], <<0, 0, 1>>, "top"),
       ConnectionPoint(<<bounds[1][1], bounds[1][2], center[3]>>, <<-1, 0, 0>>, "left"),
       ConnectionPoint(<<bounds[2][1], bounds[2][2], center[3]>>, <<1, 0, 0>>, "right"),
       ConnectionPoint(<<center[1], bounds[1][2], center[3]>>, <<0, -1, 0>>, "front"),
       ConnectionPoint(<<center[1], bounds[2][2], center[3]>>, <<0, 1, 0>>, "back") >>

\* root _extract_connection_points_trimesh and _extract_connection_points_pythonocc
ConnectionPointsRoot(bounds, center) ==
    << ConnectionPoint(bounds[1], <<0, 0, -1>>, "bottom"),
       ConnectionPoint(bounds[2], <<0, 0, 1>>, "top"),
       ConnectionPoint(<<bounds[1][1], bounds[1][2], center[3]>>, <<-1, 0, 0>>, "left"),
       ConnectionPoint(<<bounds[2][1], bounds[2][2], center[3]>>, <<1, 0, 0>>, "right") >>

ExtractConnectionPoints(v, m) ==
    IF m.kind # "None" /\ HasBounds(m)
    THEN IF v = "backend" THEN ConnectionPointsBackend(Bounds(m), Centroid(m))
                          ELSE ConnectionPointsRoot(Bounds(m), Centroid(m))
    ELSE <<>>

\* volume = self.mesh.volume if hasattr(self.mesh, 'volume') else 0.0
MeshVolume(m) == IF HasVolume(m) THEN Volume(m) ELSE 0

\* 'volume': abs(volume)
ReportedVolume(m) == Abs(MeshVolume(m))

\* the statements of _process_with_trimesh from "bounds = self.mesh.bounds" on
\* raise when bounds is None (bounds[0] of None)
AnalysisRaises(m) == ~HasBounds(m) \/ Bounds(m) = None

AnalyseMesh(v, m) ==
    GeometryData(Bounds(m)[1], Bounds(m)[2], Centroid(m), ReportedVolume(m),
                 ExtractConnectionPoints(v, m))

(***************************************************************************)
(* Mesh simplification                                                     *)
(***************************************************************************)
Outcome(st, m) == [status |-> st, mesh |-> m]

\* what mesh.simplify_quadric_decimation(face_count) can do: raise, return
\* None, or return the mesh with fewer triangles (none at all, a few, the
\* target, or all of them when no edge can be collapsed)
DecimationOutcomes(m) ==
    {Outcome("raise", NoneMesh), Outcome("none", NoneMesh)}
    \cup {Outcome("mesh", [m EXCEPT !.faces = FirstFaces(m.faces, k)])
            : k \in {0, 12, target_faces, NumFaces(m)}}

Skipped == Outcome("skipped", NoneMesh)

\* the guard with the comparison off by one
NeedsSimplificationAtTarget(m) == NumFaces(m) >= target_faces

\* if len(self.mesh.faces) > target_faces
NeedsSimplification(m) == NumFaces(m) > target_faces

\* the assignment without the test for an empty result
SimplifiedUnchecked(m, o) == IF o.status = "mesh" THEN o.mesh ELSE m

\* the assignment without the test for None
SimplifiedOrNone(m, o) ==
    IF o.status = "raise" \/ (o.status = "mesh" /\ NumFaces(o.mesh) = 0) THEN m ELSE o.mesh

\* if simplified is not None and len(simplified.faces) > 0: self.mesh = simplified
\* (an exception leaves self.mesh as it was)
Simplified(m, o) ==
    IF o.status = "mesh" /\ NumFaces(o.mesh) > 0 THEN o.mesh ELSE m

(***************************************************************************)
(* pythonocc (root variant) and the STEP conversion service (backend)      *)
(***************************************************************************)
\* what STEPControl_Reader, Bnd_Box and GProp_GProps report for a STEP file:
\* box, centre of mass and Mass(), which is negative for a solid whose
\* orientation is reversed; ok is FALSE when ReadFile does not return RetDone
Shape(f) ==
    CASE f.id = "solid" ->
            [ok |-> TRUE, min |-> <<0, 0, 0>>, max |-> <<2, 2, 2>>, center |-> <<1, 1, 1>>,
             mass |-> 48]
      [] f.id = "reversedSolid" ->
            [ok |-> TRUE, min |-> <<4, 4, 4>>, max |-> <<6, 6, 6>>, center |-> <<5, 5, 5>>,
             mass |-> -48]
      [] OTHER ->
            [ok |-> FALSE, min |-> <<>>, max |-> <<>>, center |-> <<>>, mass |-> 0]

\* the four points _extract_connection_points_pythonocc builds from the
\* bounding_box already stored in self.geometry_data, which at that moment is
\* still the dict of the constructor: none
PythonoccData(sh) ==
    GeometryData(sh.min, sh.max, sh.center, sh.mass, <<>>)

\* the STL the conversion service returns for a STEP file
Tessellated(f) ==
    CASE f.id = "solid" -> File("cloudconvert", "cube", NoneMesh)
      [] f.id = "reversedSolid" -> File("cloudconvert", "big", NoneMesh)
      [] OTHER -> Absent

(***************************************************************************)
(* Errors                                                                  *)
(***************************************************************************)
Error(t, m) == [type |-> t, msg |-> m]

NoError == Error("", "")

SupportedFormats == {".glb", ".gltf", ".step", ".stp", ".stl", ".obj"}

StepFormats == {".step", ".stp"}

GlbFormats == {".glb", ".gltf"}

(***************************************************************************)
(* History of the current invocation                                       *)
(***************************************************************************)
NoHistory ==
    [loads |-> 0, decimations |-> 0, steps |-> <<>>, mkdirs |-> {}, writes |-> {},
     analysed |-> NoneMesh, basic |-> "", exported |-> NoneMesh]

SimplifyRecord(stage, before, o, after) ==
    [stage |-> stage, before |-> before, outcome |-> o, after |-> after]

\* no request has been served: the handler is connected as at import
\* (signals.py line 12), the tables are empty
NoRequests ==
    /\ connected = TRUE
    /\ db = << >>
    /\ req = << >>
    /\ task = << >>
    /\ runs = << >>
    /\ assembly = << >>
    /\ saved = << >>

(***************************************************************************)
(* Initial state: the service has started, nothing has been processed      *)
(***************************************************************************)
Init ==
    /\ variant \in {"backend", "root"}
    /\ TRIMESH_AVAILABLE \in BOOLEAN
    /\ PYTHONOCC_AVAILABLE \in (IF variant = "root" THEN BOOLEAN ELSE {FALSE})
    /\ CLOUDCONVERT_API_KEY \in (IF variant = "backend" THEN BOOLEAN ELSE {FALSE})
    /\ fs = InitialFiles
    /\ dirs = {"uploads", "archive", "out", "ro", "tmp"}
    /\ pc = "idle"
    /\ calls = 0
    /\ arg_path = NoPath
    /\ extract_geometry = FALSE
    /\ copy_glb_to = NoPath
    /\ file_path = NoPath
    /\ mesh = NoneMesh
    /\ geometry_data = NoData
    /\ converted = NoPath
    /\ original_mesh = NoneMesh
    /\ result = [geometry_data |-> NoData, glb_path |-> NoPath]
    /\ raised = NoError
    /\ hist = NoHistory
    /\ backend = ""
    /\ step_file_path = NoPath
    /\ clock = 0
    /\ start_time = 0
    /\ download_url = FALSE
    /\ returned = NoPath
    /\ NoRequests

(***************************************************************************)
(* process_cad_file                                                        *)
(***************************************************************************)
\* where process_cad_file goes once process() has returned
AfterProcess == IF copy_glb_to # NoPath THEN "convert" ELSE "done"

\* the caller invokes process_cad_file(p, eg, out): the processor is built,
\* result is {'geometry_data': None, 'glb_path': None}
Call(p, eg, out) ==
    /\ pc = "idle"
    /\ calls < MaxCalls
    /\ calls' = calls + 1
    /\ arg_path' = p
    /\ extract_geometry' = eg
    /\ copy_glb_to' = out
    /\ file_path' = p
    /\ mesh' = NoneMesh
    /\ geometry_data' = NoData
    /\ converted' = NoPath
    /\ original_mesh' = NoneMesh
    /\ result' = [geometry_data |-> NoData, glb_path |-> NoPath]
    /\ raised' = NoError
    /\ hist' = NoHistory
    /\ pc' = IF eg THEN "process" ELSE IF out # NoPath THEN "convert" ELSE "done"
    /\ UNCHANGED <<env, conv, web, proj, fs, dirs>>

\* the caller has taken what process_cad_file returned or raised; the
\* processor and the result dict are dropped, the files stay
Finish ==
    /\ pc = "done"
    /\ pc' = "idle"
    /\ arg_path' = NoPath
    /\ extract_geometry' = FALSE
    /\ copy_glb_to' = NoPath
    /\ file_path' = NoPath
    /\ mesh' = NoneMesh
    /\ geometry_data' = NoData
    /\ converted' = NoPath
    /\ original_mesh' = NoneMesh
    /\ result' = [geometry_data |-> NoData, glb_path |-> NoPath]
    /\ raised' = NoError
    /\ hist' = NoHistory
    /\ UNCHANGED <<env, conv, web, proj, fs, dirs, calls>>

\* an exception leaves process_cad_file
Raise(e) ==
    /\ pc' = "done"
    /\ raised' = e

\* the path left in place when the nested call ends
PathLeftInPlace == file_path

\* original_path = self.file_path, taken before the converted file's path is
\* put in its place: the path the processor was built with
original_path == arg_path

\* process() returns data d to process_cad_file: result['geometry_data'] = d;
\* the finally of the STEP branch has put the original path back
ProcessReturns(d, why, h) ==
    /\ geometry_data' = d
    /\ result' = [result EXCEPT !.geometry_data = d]
    /\ file_path' = original_path
    /\ pc' = AfterProcess
    /\ raised' = NoError
    /\ hist' = [h EXCEPT !.basic = why, !.analysed = IF why = "" THEN mesh ELSE NoneMesh]

(***************************************************************************)
(* CADProcessor.process and what it calls                                  *)
(***************************************************************************)
\* backend process(): existence, extension, dispatch
ProcessBackend ==
    /\ pc = "process"
    /\ variant = "backend"
    /\ IF ~Exists(fs, file_path)
         THEN /\ Raise(Error("FileNotFoundError", "File not found"))
              /\ UNCHANGED <<geometry_data, result, file_path, hist>>
       ELSE IF Lower(file_path.suffix) \notin SupportedFormats
         THEN /\ Raise(Error("ValueError", "Unsupported file format. Supported: ..."))
              /\ UNCHANGED <<geometry_data, result, file_path, hist>>
       ELSE IF Lower(file_path.suffix) \in StepFormats
         THEN /\ pc' = "step_convert"
              /\ UNCHANGED <<geometry_data, result, file_path, hist, raised>>
       ELSE IF TRIMESH_AVAILABLE
         THEN /\ pc' = "load"
              /\ UNCHANGED <<geometry_data, result, file_path, hist, raised>>
       ELSE ProcessReturns(BasicData, "no trimesh", hist)
    /\ UNCHANGED <<env, conv, web, proj, fs, dirs, calls, arg_path, extract_geometry, copy_glb_to, mesh,
                   converted, original_mesh>>

\* what the conversion service can do with an upload: fail (job error, HTTP
\* error, no answer in time), answer with an empty body, or answer with the STL
ServiceOutcomes == {"fail", "empty", "stl"}

\* backend _convert_step_file, convert_step_file and
\* convert_step_via_cloudconvert, then the STEP branch of process(): without
\* an API key the conversion is refused; with one, the temp directory is made
\* and the service either fails, or leaves a downloaded file that is rejected
\* when empty; after a good download processing goes on with file_path set to
\* the converted file
ConvertStepFile(o) ==
    /\ pc = "step_convert"
    /\ LET out == ConvertedPath(file_path)
           stl == Tessellated(fs[file_path])
       IN  IF ~CLOUDCONVERT_API_KEY
             THEN /\ Raise(Error("ValueError",
                                 "STEP file conversion failed: CloudConvert API key not configured"))
                  /\ UNCHANGED <<fs, dirs, converted, file_path, geometry_data, result, hist>>
           ELSE IF o = "fail" \/ stl = Absent
             THEN /\ Raise(Error("ValueError", "STEP file conversion failed"))
                  /\ dirs' = dirs \cup {out.dir}
                  /\ UNCHANGED <<fs, converted, file_path, geometry_data, result, hist>>
           ELSE IF o = "empty"
             THEN /\ Raise(Error("ValueError", "STEP file conversion failed"))
                  /\ fs' = [fs EXCEPT ![out] = EmptyFile]
                  /\ dirs' = dirs \cup {out.dir}
                  /\ UNCHANGED <<converted, file_path, geometry_data, result, hist>>
           ELSE /\ fs' = [fs EXCEPT ![out] = stl]
                /\ dirs' = dirs \cup {out.dir}
                /\ converted' = out
                /\ IF TRIMESH_AVAILABLE
                     THEN /\ file_path' = out
                          /\ pc' = "load"
                          /\ UNCHANGED <<geometry_data, result, hist, raised>>
                     ELSE ProcessReturns(BasicData, "no trimesh", hist)
    /\ UNCHANGED <<env, conv, web, proj, calls, arg_path, extract_geometry, copy_glb_to, mesh,
                   original_mesh>>

\* another worker runs process_cad_file(q) on a STEP upload while this
\* invocation is under way; what it does to the shared file system is the
\* download of convert_step_via_cloudconvert: its STL is written to the path
\* made from q's stem
ConcurrentCall(q) ==
    /\ pc \notin {"idle", "done"}
    /\ calls < MaxCalls
    /\ variant = "backend"
    /\ CLOUDCONVERT_API_KEY
    /\ Lower(q.suffix) \in StepFormats
    /\ Exists(fs, q)
    /\ Tessellated(fs[q]) # Absent
    /\ calls' = calls + 1
    /\ fs' = [fs EXCEPT ![ConvertedPath(q)] = Tessellated(fs[q])]
    /\ dirs' = dirs \cup {ConvertedPath(q).dir}
    /\ UNCHANGED <<env, conv, web, proj, pc, arg_path, extract_geometry, copy_glb_to, file_path, mesh,
                   geometry_data, converted, original_mesh, result, raised, hist>>

\* root process(): existence, then dispatch on extension and backends
ProcessRoot ==
    /\ pc = "process"
    /\ variant = "root"
    /\ IF ~Exists(fs, file_path)
         THEN /\ Raise(Error("FileNotFoundError", "File not found"))
              /\ UNCHANGED <<geometry_data, result, file_path, hist>>
       ELSE IF Lower(file_path.suffix) \in StepFormats /\ PYTHONOCC_AVAILABLE
         THEN /\ pc' = "pythonocc"
              /\ UNCHANGED <<geometry_data, result, file_path, hist, raised>>
       ELSE IF Lower(file_path.suffix) \in {".stl", ".obj", ".glb", ".gltf"} /\ TRIMESH_AVAILABLE
         THEN /\ pc' = "load"
              /\ UNCHANGED <<geometry_data, result, file_path, hist, raised>>
       ELSE ProcessReturns(BasicData, "no backend", hist)
    /\ UNCHANGED <<env, conv, web, proj, fs, dirs, calls, arg_path, extract_geometry, copy_glb_to, mesh,
                   converted, original_mesh>>

\* root _process_with_pythonocc: the shape's box, centre and Mass(); when the
\* reader fails, trimesh is tried if present, else the error is re-raised
ProcessWithPythonocc ==
    /\ pc = "pythonocc"
    /\ LET sh == Shape(fs[file_path])
       IN  IF sh.ok
             THEN ProcessReturns(PythonoccData(sh), "", hist)
           ELSE IF TRIMESH_AVAILABLE
             THEN /\ pc' = "load"
                  /\ UNCHANGED <<geometry_data, result, file_path, hist, raised>>
           ELSE /\ Raise(Error("ValueError", "Error reading STEP file"))
                /\ UNCHANGED <<geometry_data, result, file_path, hist>>
    /\ UNCHANGED <<env, conv, web, proj, fs, dirs, calls, arg_path, extract_geometry, copy_glb_to, mesh,
                   converted, original_mesh>>

\* _process_with_trimesh, "self.mesh = trimesh.load(...)": an exception of
\* the parser ends in the except clause, which returns _process_basic()
LoadMesh ==
    /\ pc = "load"
    /\ LET m == TrimeshLoad(fs, file_path)
           h == [hist EXCEPT !.loads = @ + 1]
       IN  IF m = NoneMesh
             THEN /\ ProcessReturns(BasicData, "load failed", h)
                  /\ UNCHANGED mesh
             ELSE /\ mesh' = m
                  /\ pc' = "flatten"
                  /\ hist' = h
                  /\ UNCHANGED <<geometry_data, result, file_path, raised>>
    /\ UNCHANGED <<env, conv, web, proj, fs, dirs, calls, arg_path, extract_geometry, copy_glb_to, converted,
                   original_mesh>>

\* _process_with_trimesh, "Handle scene" and (backend only) "Handle single
\* mesh": what is not a Trimesh afterwards raises, caught by the except clause
FlattenLoaded ==
    /\ pc = "flatten"
    /\ LET m == FlattenScene(mesh)
       IN  /\ mesh' = m
           /\ IF variant = "backend" /\ m.kind # "Trimesh"
                THEN /\ geometry_data' = BasicData
                     /\ result' = [result EXCEPT !.geometry_data = BasicData]
                     /\ file_path' = original_path
                     /\ pc' = AfterProcess
                     /\ hist' = [hist EXCEPT !.basic = "not a mesh"]
                ELSE /\ pc' = IF variant = "backend" THEN "simplify" ELSE "analyse"
                     /\ UNCHANGED <<geometry_data, result, file_path, hist>>
    /\ UNCHANGED <<env, conv, web, proj, fs, dirs, calls, arg_path, extract_geometry, copy_glb_to, converted,
                   original_mesh, raised>>

\* backend _process_with_trimesh, "Simplify mesh early"
SimplifyEarly(o) ==
    /\ pc = "simplify"
    /\ IF NeedsSimplification(mesh)
         THEN /\ o \in DecimationOutcomes(mesh)
              /\ mesh' = Simplified(mesh, o)
              /\ hist' = [hist EXCEPT !.decimations = @ + 1,
                            !.steps = Append(@, SimplifyRecord("process", mesh, o,
                                                               Simplified(mesh, o)))]
         ELSE /\ o = Skipped
              /\ UNCHANGED mesh
              /\ hist' = [hist EXCEPT
                            !.steps = Append(@, SimplifyRecord("process", mesh, o, mesh))]
    /\ pc' = "analyse"
    /\ UNCHANGED <<env, conv, web, proj, fs, dirs, calls, arg_path, extract_geometry, copy_glb_to, file_path,
                   geometry_data, converted, original_mesh, result, raised>>

\* _process_with_trimesh from "if not hasattr(self.mesh, 'bounds')" to the
\* return, with the except clause that returns _process_basic()
Analyse ==
    /\ pc = "analyse"
    /\ IF AnalysisRaises(mesh)
         THEN ProcessReturns(BasicData, "analysis failed", hist)
         ELSE ProcessReturns(AnalyseMesh(variant, mesh), "", hist)
    /\ UNCHANGED <<env, conv, web, proj, fs, dirs, calls, arg_path, extract_geometry, copy_glb_to, mesh,
                   converted, original_mesh>>

(***************************************************************************)
(* CADProcessor.convert_to_glb / copy_glb_file and what they call          *)
(***************************************************************************)
\* shutil.copy(src, dst): the error it raises, or NoError
CopyError(files, ds, src, dst) ==
    IF ~Exists(files, src) THEN Error("FileNotFoundError", "No such file or directory")
    ELSE IF dst.dir \notin ds THEN Error("FileNotFoundError", "No such file or directory")
    ELSE IF dst.dir \in ReadOnlyDirs THEN Error("PermissionError", "Permission denied")
    ELSE NoError

\* a copy that re-encodes: the file is parsed and the mesh exported
ReencodedBytes(files, src) == ExportedGlb(FlattenScene(Decode(files[src])))

\* the bytes shutil.copy leaves at the destination
CopiedBytes(files, src) == files[src]

\* the finally clause of convert_to_glb's STEP branch: file_path and mesh are
\* put back; outside that branch they stay
InStepBranch == file_path # arg_path

MeshAtExit(m) == IF InStepBranch THEN original_mesh ELSE m

\* backend convert_to_glb up to the call of _convert_mesh_to_glb
ConvertToGlb ==
    /\ pc = "convert"
    /\ variant = "backend"
    /\ LET out == copy_glb_to
           ext == Lower(file_path.suffix)
           made == dirs \cup {out.dir}
           h == [hist EXCEPT !.mkdirs = @ \cup ({out.dir} \ dirs)]
       IN  /\ dirs' = made
           /\ IF ext \in GlbFormats
                THEN LET e == CopyError(fs, made, file_path, out)
                     IN  IF e # NoError
                           THEN /\ Raise(e)
                                /\ hist' = h
                                /\ UNCHANGED <<fs, result, file_path, mesh, original_mesh>>
                           ELSE /\ fs' = [fs EXCEPT ![out] = CopiedBytes(fs, file_path)]
                                /\ result' = [result EXCEPT !.glb_path = out]
                                /\ pc' = "done"
                                /\ hist' = [h EXCEPT !.writes = @ \cup {out}]
                                /\ UNCHANGED <<file_path, mesh, original_mesh, raised>>
              ELSE IF ext \in StepFormats /\ converted # NoPath /\ Exists(fs, converted)
                THEN /\ original_mesh' = mesh
                     /\ IF mesh # NoneMesh
                          THEN /\ file_path' = converted
                               /\ pc' = "c_flatten"
                               /\ hist' = h
                               /\ UNCHANGED <<fs, result, mesh, raised>>
                        ELSE IF ~TRIMESH_AVAILABLE
                          THEN /\ Raise(Error("ValueError",
                                              "trimesh is required for format conversion"))
                               /\ hist' = h
                               /\ UNCHANGED <<fs, result, mesh, file_path>>
                        ELSE IF TrimeshLoad(fs, converted) = NoneMesh
                          THEN /\ Raise(Error("ValueError",
                                              "Failed to load converted file for GLB conversion"))
                               /\ hist' = [h EXCEPT !.loads = @ + 1]
                               /\ UNCHANGED <<fs, result, mesh, file_path>>
                        ELSE /\ mesh' = TrimeshLoad(fs, converted)
                             /\ file_path' = converted
                             /\ pc' = "c_flatten"
                             /\ hist' = [h EXCEPT !.loads = @ + 1]
                             /\ UNCHANGED <<fs, result, raised>>
              ELSE IF ~TRIMESH_AVAILABLE
                THEN /\ Raise(Error("ValueError", "trimesh is required for format conversion"))
                     /\ hist' = h
                     /\ UNCHANGED <<fs, result, file_path, mesh, original_mesh>>
              ELSE IF mesh # NoneMesh
                THEN /\ pc' = "c_flatten"
                     /\ hist' = h
                     /\ UNCHANGED <<fs, result, file_path, mesh, original_mesh, raised>>
              ELSE IF TrimeshLoad(fs, file_path) = NoneMesh
                THEN /\ Raise(Error("ValueError", "Failed to load file for conversion"))
                     /\ hist' = [h EXCEPT !.loads = @ + 1]
                     /\ UNCHANGED <<fs, result, file_path, mesh, original_mesh>>
              ELSE /\ mesh' = TrimeshLoad(fs, file_path)
                   /\ pc' = "c_flatten"
                   /\ hist' = [h EXCEPT !.loads = @ + 1]
                   /\ UNCHANGED <<fs, result, file_path, original_mesh, raised>>
    /\ UNCHANGED <<env, conv, web, proj, calls, arg_path, extract_geometry, copy_glb_to, geometry_data,
                   converted>>

\* _convert_mesh_to_glb, "Handle scene" and "Ensure we have a Trimesh object"
FlattenForGlb ==
    /\ pc = "c_flatten"
    /\ LET m == FlattenScene(mesh)
       IN  IF m.kind # "Trimesh"
             THEN /\ Raise(Error("ValueError", "Cannot convert to GLB"))
                  /\ mesh' = MeshAtExit(m)
                  /\ file_path' = original_path
             ELSE /\ mesh' = m
                  /\ pc' = "c_simplify"
                  /\ UNCHANGED <<file_path, raised>>
    /\ UNCHANGED <<env, conv, web, proj, fs, dirs, calls, arg_path, extract_geometry, copy_glb_to,
                   geometry_data, converted, original_mesh, result, hist>>

\* _convert_mesh_to_glb, "Simplify mesh for web performance"
SimplifyForGlb(o) ==
    /\ pc = "c_simplify"
    /\ IF NeedsSimplification(mesh)
         THEN /\ o \in DecimationOutcomes(mesh)
              /\ mesh' = Simplified(mesh, o)
              /\ hist' = [hist EXCEPT !.decimations = @ + 1,
                            !.steps = Append(@, SimplifyRecord("convert", mesh, o,
                                                               Simplified(mesh, o)))]
         ELSE /\ o = Skipped
              /\ UNCHANGED mesh
              /\ hist' = [hist EXCEPT
                            !.steps = Append(@, SimplifyRecord("convert", mesh, o, mesh))]
    /\ pc' = "c_export"
    /\ UNCHANGED <<env, conv, web, proj, fs, dirs, calls, arg_path, extract_geometry, copy_glb_to, file_path,
                   geometry_data, converted, original_mesh, result, raised>>

\* what mesh.export(path, file_type='glb') can do: it raises when the target
\* cannot be written; given a mesh without triangles the encoder either
\* writes a file with no geometry in it or raises; otherwise it writes
ExportOutcomes(m, out) ==
    IF out.dir \in ReadOnlyDirs THEN {"raise"}
    ELSE IF NumFaces(m) = 0 THEN {"raise", "written"}
    ELSE {"written"}

\* _convert_mesh_to_glb, "Export to GLB", and the return through convert_to_glb
\* to process_cad_file
ExportGlb(o) ==
    /\ pc = "c_export"
    /\ o \in ExportOutcomes(mesh, copy_glb_to)
    /\ LET out == copy_glb_to
       IN  IF o = "raise"
             THEN /\ Raise(Error("ValueError", "Failed to convert to GLB"))
                  /\ UNCHANGED <<fs, result, hist>>
             ELSE /\ fs' = [fs EXCEPT ![out] = ExportedGlb(mesh)]
                  /\ result' = [result EXCEPT !.glb_path = out]
                  /\ hist' = [hist EXCEPT !.writes = @ \cup {out}, !.exported = mesh]
                  /\ pc' = "done"
                  /\ UNCHANGED raised
    /\ mesh' = MeshAtExit(mesh)
    /\ file_path' = original_path
    /\ UNCHANGED <<env, conv, web, proj, dirs, calls, arg_path, extract_geometry, copy_glb_to,
                   geometry_data, converted, original_mesh>>

\* root process_cad_file, "processor.copy_glb_file(copy_glb_to)"
CopyGlbFile ==
    /\ pc = "convert"
    /\ variant = "root"
    /\ LET out == copy_glb_to
           e == CopyError(fs, dirs, file_path, out)
       IN  IF Lower(file_path.suffix) \notin GlbFormats
             THEN /\ Raise(Error("ValueError", "Expected GLB/GLTF file"))
                  /\ UNCHANGED <<fs, result, hist>>
           ELSE IF e # NoError
             THEN /\ Raise(e)
                  /\ UNCHANGED <<fs, result, hist>>
           ELSE /\ fs' = [fs EXCEPT ![out] = CopiedBytes(fs, file_path)]
                /\ result' = [result EXCEPT !.glb_path = out]
                /\ hist' = [hist EXCEPT !.writes = @ \cup {out}]
                /\ pc' = "done"
                /\ UNCHANGED raised
    /\ UNCHANGED <<env, conv, web, proj, dirs, calls, arg_path, extract_geometry, copy_glb_to, file_path, mesh,
                   geometry_data, converted, original_mesh>>

(***************************************************************************)
(* The specification                                                       *)
(***************************************************************************)
AllOutcomes ==
    {Skipped} \cup UNION {DecimationOutcomes(m) : m \in {BigMesh}}

Next ==
    \/ \E p \in InputPaths, eg \in BOOLEAN, out \in OutputPaths \cup {NoPath} : Call(p, eg, out)
    \/ Finish
    \/ ProcessBackend
    \/ \E o \in ServiceOutcomes : ConvertStepFile(o)
    \/ \E q \in InputPaths : ConcurrentCall(q)
    \/ ProcessRoot
    \/ ProcessWithPythonocc
    \/ LoadMesh
    \/ FlattenLoaded
    \/ \E o \in AllOutcomes : SimplifyEarly(o)
    \/ Analyse
    \/ ConvertToGlb
    \/ FlattenForGlb
    \/ \E o \in AllOutcomes : SimplifyForGlb(o)
    \/ \E o \in {"raise", "written"} : ExportGlb(o)
    \/ CopyGlbFile

Spec == Init /\ [][Next]_vars

(***************************************************************************)
(* The convert_step_via_* functions, called on their own                   *)
(***************************************************************************)
Converters == {"cloudconvert", "freecad_docker", "freecad_local", "pythonocc"}

\* the STEP uploads, and a path with no file
ConverterInputs ==
    {p \in InputPaths : Lower(p.suffix) \in StepFormats} \cup {Path("uploads", "gone", ".stl")}

\* how long the service takes to answer a status request that it answers:
\* just within the request's timeout once the sleep is added
PollLatencies == {status_timeout - poll_sleep}

\* how long an upload or a download that succeeds takes
TransferLatencies == {1, transfer_timeout - 1}

\* what the job's status request can come back with
PollOutcomes ==
    {"no_answer", "http_error", "finished", "finished_no_url", "error", "processing",
     "unexpected"}

\* what a FreeCAD run (service, container or local script) can leave behind
FreecadOutcomes == {"unavailable", "fail", "missing", "empty", "stl"}

\* the state of the processor, which a converter called on its own leaves alone
processor ==
    <<arg_path, extract_geometry, copy_glb_to, file_path, mesh, geometry_data, converted,
      original_mesh, result>>

\* raise ValueError("CloudConvert conversion timed out or failed to get
\* download URL"), as the except clause of the function re-raises it
CloudConvertTimeout ==
    Error("ValueError",
          "STEP conversion via CloudConvert failed: CloudConvert conversion timed out or failed to get download URL")

ConverterInit ==
    /\ variant = "backend"
    /\ TRIMESH_AVAILABLE = TRUE
    /\ PYTHONOCC_AVAILABLE \in BOOLEAN
    /\ CLOUDCONVERT_API_KEY \in BOOLEAN
    /\ fs = InitialFiles
    /\ dirs = {"uploads", "archive", "out", "ro", "tmp"}
    /\ pc = "idle"
    /\ calls = 0
    /\ arg_path = NoPath
    /\ extract_geometry = FALSE
    /\ copy_glb_to = NoPath
    /\ file_path = NoPath
    /\ mesh = NoneMesh
    /\ geometry_data = NoData
    /\ converted = NoPath
    /\ original_mesh = NoneMesh
    /\ result = [geometry_data |-> NoData, glb_path |-> NoPath]
    /\ raised = NoError
    /\ hist = NoHistory
    /\ backend = ""
    /\ step_file_path = NoPath
    /\ clock = 0
    /\ start_time = 0
    /\ download_url = FALSE
    /\ returned = NoPath
    /\ NoRequests

\* a caller enters convert_step_via_<b>(p, 'stl')
CallConverter(b, p) ==
    /\ pc = "idle"
    /\ calls < MaxCalls
    /\ calls' = calls + 1
    /\ backend' = b
    /\ step_file_path' = p
    /\ clock' = 0
    /\ start_time' = 0
    /\ download_url' = FALSE
    /\ returned' = NoPath
    /\ raised' = NoError
    /\ hist' = NoHistory
    /\ pc' = "entered"
    /\ UNCHANGED <<env, web, proj, processor, fs, dirs>>

\* the function raises e
ConverterRaises(e) ==
    /\ pc' = "returned"
    /\ raised' = e
    /\ returned' = NoPath

\* the function returns path out
ConverterReturnsPath(out) ==
    /\ pc' = "returned"
    /\ raised' = NoError
    /\ returned' = out

\* the caller has taken what the function returned or raised
ConverterDone ==
    /\ pc = "returned"
    /\ pc' = "idle"
    /\ backend' = ""
    /\ step_file_path' = NoPath
    /\ clock' = 0
    /\ start_time' = 0
    /\ download_url' = FALSE
    /\ returned' = NoPath
    /\ raised' = NoError
    /\ hist' = NoHistory
    /\ UNCHANGED <<env, web, proj, processor, fs, dirs, calls>>

\* convert_step_via_cloudconvert up to "Step 3": the key and the file are
\* checked, the temp directory is made, the job is created and the file is
\* uploaded; start_time is taken after the upload
CloudConvertUpload(ok, lat) ==
    /\ pc = "entered"
    /\ backend = "cloudconvert"
    /\ IF ~CLOUDCONVERT_API_KEY
         THEN /\ ConverterRaises(Error("ValueError", "CloudConvert API key not configured"))
              /\ UNCHANGED <<dirs, clock, start_time>>
       ELSE IF ~Exists(fs, step_file_path)
         THEN /\ ConverterRaises(Error("FileNotFoundError", "STEP file not found"))
              /\ UNCHANGED <<dirs, clock, start_time>>
       ELSE IF ~ok
         THEN /\ ConverterRaises(Error("ValueError", "CloudConvert API error"))
              /\ dirs' = dirs \cup {ConvertedPath(step_file_path).dir}
              /\ clock' = clock + lat
              /\ UNCHANGED start_time
       ELSE /\ dirs' = dirs \cup {ConvertedPath(step_file_path).dir}
            /\ clock' = clock + lat
            /\ start_time' = clock + lat
            /\ pc' = "poll"
            /\ UNCHANGED <<raised, returned>>
    /\ UNCHANGED <<env, web, proj, processor, fs, calls, hist, backend, step_file_path, download_url>>

\* one turn of "while time.time() - start_time < max_wait": the test, the
\* status request and what its answer leads to; after the loop, the test of
\* download_url
CloudConvertPoll(st, lat) ==
    /\ pc = "poll"
    /\ IF ~(clock - start_time < max_wait)
         THEN /\ ConverterRaises(CloudConvertTimeout)
              /\ UNCHANGED <<clock, download_url>>
       ELSE CASE st = "no_answer" ->
                   /\ ConverterRaises(Error("ValueError", "CloudConvert API error"))
                   /\ clock' = clock + status_timeout
                   /\ UNCHANGED download_url
              [] st = "http_error" ->
                   /\ ConverterRaises(Error("ValueError",
                         "STEP conversion via CloudConvert failed: CloudConvert API error"))
                   /\ clock' = clock + lat
                   /\ UNCHANGED download_url
              [] st = "error" ->
                   /\ ConverterRaises(Error("ValueError",
                         "STEP conversion via CloudConvert failed: CloudConvert conversion failed"))
                   /\ clock' = clock + lat
                   /\ UNCHANGED download_url
              [] st = "unexpected" ->
                   /\ ConverterRaises(Error("ValueError",
                         "STEP conversion via CloudConvert failed: Unexpected job status"))
                   /\ clock' = clock + lat
                   /\ UNCHANGED download_url
              [] st = "finished" ->
                   /\ download_url' = TRUE
                   /\ clock' = clock + lat
                   /\ pc' = "download"
                   /\ UNCHANGED <<raised, returned>>
              [] st = "finished_no_url" ->
                   /\ clock' = clock + lat
                   /\ UNCHANGED <<pc, raised, returned, download_url>>
              [] st = "processing" ->
                   /\ clock' = clock + lat + poll_sleep
                   /\ UNCHANGED <<pc, raised, returned, download_url>>
    /\ UNCHANGED <<env, web, proj, processor, fs, dirs, calls, hist, backend, step_file_path, start_time>>

\* convert_step_via_cloudconvert, "Step 4": the download, the write of the
\* output file and the test of its size
CloudConvertDownload(c, lat) ==
    /\ pc = "download"
    /\ LET out == ConvertedPath(step_file_path)
           stl == Tessellated(fs[step_file_path])
       IN  IF c = "fail" \/ stl = Absent
             THEN /\ ConverterRaises(Error("ValueError", "CloudConvert API error"))
                  /\ UNCHANGED <<fs, hist>>
           ELSE IF c = "empty"
             THEN /\ ConverterRaises(Error("ValueError",
                        "STEP conversion via CloudConvert failed: Downloaded file is empty or not found"))
                  /\ fs' = [fs EXCEPT ![out] = EmptyFile]
                  /\ hist' = [hist EXCEPT !.writes = @ \cup {out}]
           ELSE /\ ConverterReturnsPath(out)
                /\ fs' = [fs EXCEPT ![out] = stl]
                /\ hist' = [hist EXCEPT !.writes = @ \cup {out}]
    /\ clock' = clock + lat
    /\ UNCHANGED <<env, web, proj, processor, dirs, calls, backend, step_file_path, start_time,
                   download_url>>

\* what a FreeCAD run writes at the output path: nothing, no bytes, or the STL
FreecadWrites(files, p, o) ==
    IF o = "empty" THEN [files EXCEPT ![ConvertedPath(p)] = EmptyFile]
    ELSE IF o = "stl" /\ Tessellated(files[p]) # Absent
      THEN [files EXCEPT ![ConvertedPath(p)] = File("freecad", Tessellated(files[p]).id, NoneMesh)]
    ELSE files

\* convert_step_via_freecad_docker: with FREECAD_DOCKER_URL set the response
\* body is written and its path returned; without it the container is run and
\* the output path is returned when a file exists there
ConvertStepViaFreecadDocker(url, o) ==
    /\ pc = "entered"
    /\ backend = "freecad_docker"
    /\ LET out == ConvertedPath(step_file_path)
           after == FreecadWrites(fs, step_file_path, o)
       IN  IF ~Exists(fs, step_file_path)
             THEN /\ ConverterRaises(Error("FileNotFoundError", "STEP file not found"))
                  /\ UNCHANGED <<fs, dirs, hist>>
           ELSE IF url
             THEN IF o \in {"unavailable", "fail", "missing"} \/ after = fs
                    THEN /\ ConverterRaises(Error("ValueError",
                               "FreeCAD Docker service conversion failed"))
                         /\ UNCHANGED <<fs, dirs, hist>>
                    ELSE /\ ConverterReturnsPath(out)
                         /\ fs' = after
                         /\ dirs' = dirs \cup {out.dir}
                         /\ hist' = [hist EXCEPT !.writes = @ \cup {out}]
           ELSE IF o = "unavailable"
             THEN /\ ConverterRaises(Error("ValueError",
                        "STEP file conversion requires FreeCAD Docker container"))
                  /\ UNCHANGED <<fs, dirs, hist>>
           ELSE IF o = "fail"
             THEN /\ ConverterRaises(Error("ValueError", "STEP file conversion failed"))
                  /\ dirs' = dirs \cup {out.dir}
                  /\ UNCHANGED <<fs, hist>>
           ELSE /\ fs' = after
                /\ dirs' = dirs \cup {out.dir}
                /\ hist' = [hist EXCEPT !.writes = @ \cup (IF after = fs THEN {} ELSE {out})]
                /\ IF Exists(after, out)
                     THEN ConverterReturnsPath(out)
                     ELSE ConverterRaises(Error("ValueError", "STEP file conversion failed"))
    /\ UNCHANGED <<env, web, proj, processor, calls, backend, step_file_path, clock, start_time,
                   download_url>>

\* convert_step_via_freecad_local: the converter script is run and the output
\* path is returned when a file with bytes in it exists there
ConvertStepViaFreecadLocal(o) ==
    /\ pc = "entered"
    /\ backend = "freecad_local"
    /\ LET out == ConvertedPath(step_file_path)
           after == FreecadWrites(fs, step_file_path, o)
       IN  IF ~Exists(fs, step_file_path)
             THEN /\ ConverterRaises(Error("FileNotFoundError", "STEP file not found"))
                  /\ UNCHANGED <<fs, dirs, hist>>
           ELSE IF o \in {"unavailable", "fail"}
             THEN /\ ConverterRaises(Error("ValueError",
                        "STEP conversion via local FreeCAD failed"))
                  /\ dirs' = dirs \cup {out.dir}
                  /\ UNCHANGED <<fs, hist>>
           ELSE /\ fs' = after
                /\ dirs' = dirs \cup {out.dir}
                /\ hist' = [hist EXCEPT !.writes = @ \cup (IF after = fs THEN {} ELSE {out})]
                /\ IF Exists(after, out) /\ Size(after[out]) # 0
                     THEN ConverterReturnsPath(out)
                     ELSE ConverterRaises(Error("ValueError",
                              "STEP conversion via local FreeCAD failed"))
    /\ UNCHANGED <<env, web, proj, processor, calls, backend, step_file_path, clock, start_time,
                   download_url>>

\* convert_step_via_pythonocc: the shape is read, meshed and written as STL;
\* the output path is returned when a file with bytes in it exists there
ConvertStepViaPythonocc(written) ==
    /\ pc = "entered"
    /\ backend = "pythonocc"
    /\ LET out == ConvertedPath(step_file_path)
       IN  IF ~PYTHONOCC_AVAILABLE
             THEN /\ ConverterRaises(Error("ValueError", "pythonocc-core is not available"))
                  /\ UNCHANGED <<fs, dirs, hist>>
           ELSE IF ~Exists(fs, step_file_path)
             THEN /\ ConverterRaises(Error("FileNotFoundError", "STEP file not found"))
                  /\ UNCHANGED <<fs, dirs, hist>>
           ELSE IF ~Shape(fs[step_file_path]).ok \/ ~written
             THEN /\ ConverterRaises(Error("ValueError",
                        "STEP conversion via pythonocc-core failed"))
                  /\ dirs' = dirs \cup {out.dir}
                  /\ UNCHANGED <<fs, hist>>
           ELSE /\ ConverterReturnsPath(out)
                /\ fs' = [fs EXCEPT ![out] =
                            File("pythonocc", Tessellated(fs[step_file_path]).id, NoneMesh)]
                /\ dirs' = dirs \cup {out.dir}
                /\ hist' = [hist EXCEPT !.writes = @ \cup {out}]
    /\ UNCHANGED <<env, web, proj, processor, calls, backend, step_file_path, clock, start_time,
                   download_url>>

ConverterNext ==
    \/ \E b \in Converters, p \in ConverterInputs : CallConverter(b, p)
    \/ ConverterDone
    \/ \E ok \in BOOLEAN, lat \in TransferLatencies : CloudConvertUpload(ok, lat)
    \/ \E st \in PollOutcomes, lat \in PollLatencies : CloudConvertPoll(st, lat)
    \/ \E c \in ServiceOutcomes, lat \in TransferLatencies : CloudConvertDownload(c, lat)
    \/ \E url \in BOOLEAN, o \in FreecadOutcomes : ConvertStepViaFreecadDocker(url, o)
    \/ \E o \in FreecadOutcomes : ConvertStepViaFreecadLocal(o)
    \/ \E written \in BOOLEAN : ConvertStepViaPythonocc(written)

ConverterSpec == ConverterInit /\ [][ConverterNext]_vars

(***************************************************************************)
(* The components application (src/backend/components): the upload and     *)
(* update views of ComponentViewSet, the admin's add form, the post_save   *)
(* handler and the Celery task.  Each request runs on its own thread of    *)
(* one server process, so post_save's receiver list is shared by all of    *)
(* them; the task runs in the Celery worker.  process_cad_file is seen     *)
(* from its callers: it returns its result or an exception leaves it.      *)
(***************************************************************************)
\* requests served in one run
MaxRequests == 2

Requests == 1..MaxRequests

\* settings.CAD_ALLOWED_EXTENSIONS
CAD_ALLOWED_EXTENSIONS == {".glb", ".gltf", ".step", ".stp", ".stl", ".obj"}

\* the suffixes of the files a client sends
UploadedExtensions == {".stl", ".step", ".glb", ".txt"}

\* processing_error = None, and "no exception"
NoMessage == "None"

\* a Component row as the model's defaults leave it (models.py): the fields
\* bounding_box, center and volume are one field geometry here
Component(status, ext) ==
    [original_file |-> ext, processing_status |-> status, processing_error |-> NoMessage,
     geometry |-> "default", glb_file |-> FALSE]

\* the outcomes of process_cad_file(path, extract_geometry=True, copy_glb_to=...)
\* on a well-formed file with suffix ext: "returned", or the message of the
\* exception that leaves it.  A STEP file goes through convert_step_file,
\* which raises without an API key and otherwise depends on the service.
ProcessCadFile(ext) ==
    IF ext \in StepFormats
    THEN IF CLOUDCONVERT_API_KEY
         THEN {"returned", "STEP file conversion failed"}
         ELSE {"STEP file conversion failed: CloudConvert API key not configured"}
    ELSE {"returned"}

\* the view's and the task's error_message: str(e), with the remediation
\* text around it when it mentions STEP or conversion
ErrorMessage(e) ==
    IF e \in {"STEP file conversion failed",
              "STEP file conversion failed: CloudConvert API key not configured"}
    THEN "STEP file conversion failed: " \o e \o " SOLUTIONS: 1. Pre-convert STEP to STL/OBJ"
    ELSE e

\* handle_component_post_save(instance, created=True), o being what
\* process_cad_file did: the instance as its last save() leaves it
HandleComponentPostSave(instance, o) ==
    IF o = "returned"
    THEN [instance EXCEPT !.processing_status = "completed", !.processing_error = NoMessage,
                          !.geometry = "extracted", !.glb_file = TRUE]
    ELSE [instance EXCEPT !.processing_status = "failed", !.processing_error = o]

\* post_save.send(created=True): the receivers connected at that moment run
PostSave(instance, o) ==
    IF connected THEN HandleComponentPostSave(instance, o) ELSE instance

\* a request thread that has not received a request yet
NoRequest ==
    [view |-> "", pc |-> "idle", field |-> "", ext |-> "", use_async |-> FALSE, id |-> 0,
     component |-> Component("pending", ""), exc |-> NoMessage,
     response |-> [status |-> 0, error |-> NoMessage]]

\* no process_component_async task for a component
NoTask == [pc |-> "none", component |-> Component("pending", "")]

Response(code, msg) == [status |-> code, error |-> msg]

WebInit ==
    /\ variant = "backend"
    /\ TRIMESH_AVAILABLE = TRUE
    /\ PYTHONOCC_AVAILABLE \in BOOLEAN
    /\ CLOUDCONVERT_API_KEY \in BOOLEAN
    /\ fs = InitialFiles
    /\ dirs = {"uploads", "archive", "out", "ro", "tmp"}
    /\ pc = "idle"
    /\ calls = 0
    /\ arg_path = NoPath
    /\ extract_geometry = FALSE
    /\ copy_glb_to = NoPath
    /\ file_path = NoPath
    /\ mesh = NoneMesh
    /\ geometry_data = NoData
    /\ converted = NoPath
    /\ original_mesh = NoneMesh
    /\ result = [geometry_data |-> NoData, glb_path |-> NoPath]
    /\ raised = NoError
    /\ hist = NoHistory
    /\ backend = ""
    /\ step_file_path = NoPath
    /\ clock = 0
    /\ start_time = 0
    /\ download_url = FALSE
    /\ returned = NoPath
    /\ connected = TRUE
    /\ db = << >>
    /\ req = [r \in Requests |-> NoRequest]
    /\ task = [id \in Requests |-> NoTask]
    /\ runs = << >>
    /\ assembly = << >>
    /\ saved = << >>

\* what the components application never touches
pipeline ==
    <<fs, dirs, pc, calls, arg_path, extract_geometry, copy_glb_to, file_path, mesh,
      geometry_data, converted, original_mesh, result, raised, hist>>

\* upload, up to the size check (lines 229-315): the serializer and the
\* suffix are validated, a STEP upload passes the availability pre-check when
\* OCC imports, the FreeCAD service answers /health with 200 (health) or
\* 'docker --version' succeeds (docker)
Upload(r, ext, too_large, is_async, health, docker) ==
    /\ req[r].pc = "idle"
    /\ LET step_conversion_available == PYTHONOCC_AVAILABLE \/ health \/ docker
           error == IF ext \notin CAD_ALLOWED_EXTENSIONS THEN "Invalid file type"
                    ELSE IF ext \in StepFormats /\ ~step_conversion_available
                         THEN "STEP file conversion is not available"
                    ELSE IF too_large THEN "File too large"
                    ELSE NoMessage
       IN req' = [req EXCEPT ![r] =
                    IF error # NoMessage
                    THEN [@ EXCEPT !.view = "upload", !.ext = ext, !.pc = "done",
                                   !.response = Response(400, error)]
                    ELSE [@ EXCEPT !.view = "upload", !.ext = ext, !.pc = "validated",
                                   !.use_async = is_async]]
    /\ UNCHANGED <<env, conv, proj, pipeline, connected, db, task, runs>>

\* lines 317-319: serializer.save(processing_status=...) inside its own
\* transaction.  The INSERT sends post_save with created=True, so the handler,
\* when connected, processes the stored file before the transaction commits
SerializerSave(r, o) ==
    /\ req[r].pc = "validated"
    /\ LET new == Component(IF req[r].use_async THEN "pending" ELSE "processing", req[r].ext)
           component == PostSave(new, o)
       IN /\ db' = Append(db, component)
          /\ runs' = Append(runs, IF connected THEN <<"handler">> ELSE << >>)
          /\ req' = [req EXCEPT ![r].id = Len(db) + 1,
                                ![r].component = component,
                                ![r].pc = IF req[r].use_async THEN "saved" ELSE "created"]
    /\ UNCHANGED <<env, conv, proj, pipeline, connected, task>>

\* line 323: process_component_async.delay(component.id)
Delay(r) ==
    /\ req[r].pc = "saved"
    /\ task' = [task EXCEPT ![req[r].id] = [pc |-> "queued", component |-> db[req[r].id]]]
    /\ req' = [req EXCEPT ![r].pc = "delayed"]
    /\ UNCHANGED <<env, conv, proj, pipeline, connected, db, runs>>

\* lines 324-325 and 422-423: the request's instance gets status 'processing'
\* and is saved with all its fields; 201
ComponentSave(r) ==
    /\ req[r].pc = "delayed"
    /\ LET component == [req[r].component EXCEPT !.processing_status = "processing"]
       IN /\ db' = [db EXCEPT ![req[r].id] = component]
          /\ req' = [req EXCEPT ![r].component = component, ![r].pc = "done",
                                ![r].response = Response(201, NoMessage)]
    /\ UNCHANGED <<env, conv, proj, pipeline, connected, task, runs>>

\* line 328: post_save.disconnect(handle_component_post_save, sender=Component)
Disconnect(r) ==
    /\ req[r].pc = "created"
    /\ connected' = FALSE
    /\ req' = [req EXCEPT ![r].pc = "disconnected"]
    /\ UNCHANGED <<env, conv, proj, pipeline, db, task, runs>>

\* lines 331-416: the view processes the upload inside transaction.atomic().
\* On success the instance is saved as 'completed' and the block commits; on
\* an exception the instance is saved as 'failed', the exception is raised
\* again, and leaving the block with it rolls the block's writes back
ProcessSynchronously(r, o) ==
    /\ req[r].pc = "disconnected"
    /\ runs' = [runs EXCEPT ![req[r].id] = Append(@, "view")]
    /\ IF o = "returned"
       THEN LET component == [req[r].component EXCEPT !.processing_status = "completed",
                                                      !.geometry = "extracted",
                                                      !.glb_file = TRUE]
            IN /\ db' = [db EXCEPT ![req[r].id] = component]
               /\ req' = [req EXCEPT ![r].component = component, ![r].pc = "processed"]
       ELSE /\ req' = [req EXCEPT ![r].component =
                                     [@ EXCEPT !.processing_status = "failed",
                                               !.processing_error = ErrorMessage(o)],
                                  ![r].exc = o,
                                  ![r].pc = "processed"]
            /\ UNCHANGED db
    /\ UNCHANGED <<env, conv, proj, pipeline, connected, task>>

\* lines 417-428: the finally clause connects the handler again; the view
\* answers 201, or 500 when the exception reached its outer except clause
Reconnect(r) ==
    /\ req[r].pc = "processed"
    /\ connected' = TRUE
    /\ req' = [req EXCEPT ![r].pc = "done",
                          ![r].response = IF req[r].exc = NoMessage
                                          THEN Response(201, NoMessage)
                                          ELSE Response(500, "Error processing file: " \o req[r].exc)]
    /\ UNCHANGED <<env, conv, proj, pipeline, db, task, runs>>

\* the admin's add form (admin.py, ComponentAdmin): the row is inserted with
\* the default status 'pending' and processed by the post_save handler alone
AdminAdd(r, ext, o) ==
    /\ req[r].pc = "idle"
    /\ LET component == PostSave(Component("pending", ext), o)
       IN /\ db' = Append(db, component)
          /\ runs' = Append(runs, IF connected THEN <<"handler">> ELSE << >>)
          /\ req' = [req EXCEPT ![r] = [@ EXCEPT !.view = "admin", !.ext = ext,
                                                 !.id = Len(db) + 1,
                                                 !.component = component,
                                                 !.pc = "done",
                                                 !.response = Response(302, NoMessage)]]
    /\ UNCHANGED <<env, conv, proj, pipeline, connected, task>>

\* update (lines 43-103, 190-192) of component id with a file in the given
\* field ("glb_file", "original_file" or "" for none).  With an
\* original_file of an allowed type, line 99 reads uploaded_file, a name the
\* function never binds: NameError leaves the view and the request ends 500
Update(r, id, field, ext) ==
    /\ req[r].pc = "idle"
    /\ id \in 1..Len(db)
    /\ LET answer ==
             IF field = "glb_file"
             THEN IF ext \notin GlbFormats
                  THEN Response(400, "GLB file must be a .glb or .gltf file")
                  ELSE Response(200, NoMessage)
             ELSE IF field = "original_file"
             THEN IF ext \notin CAD_ALLOWED_EXTENSIONS
                  THEN Response(400, "Invalid file type")
                  ELSE Response(500, "NameError: name 'uploaded_file' is not defined")
             ELSE Response(200, NoMessage)
       IN /\ db' = IF field = "glb_file" /\ answer.status = 200
                   THEN [db EXCEPT ![id].glb_file = TRUE]
                   ELSE db
          /\ req' = [req EXCEPT ![r] = [@ EXCEPT !.view = "update", !.field = field,
                                                 !.ext = ext, !.id = id,
                                                 !.component = db'[id],
                                                 !.pc = "done",
                                                 !.response = answer]]
    /\ UNCHANGED <<env, conv, proj, pipeline, connected, task, runs>>

\* process_component_async, lines 22-30: the row is read; a completed one is
\* left alone, any other is saved as 'processing' with its error cleared
ProcessComponentAsyncStart(id) ==
    /\ task[id].pc = "queued"
    /\ IF db[id].processing_status = "completed"
       THEN /\ task' = [task EXCEPT ![id] = [pc |-> "done", component |-> db[id]]]
            /\ UNCHANGED db
       ELSE LET component == [db[id] EXCEPT !.processing_status = "processing",
                                            !.processing_error = NoMessage]
            IN /\ db' = [db EXCEPT ![id] = component]
               /\ task' = [task EXCEPT ![id] = [pc |-> "started", component |-> component]]
    /\ UNCHANGED <<env, conv, proj, pipeline, connected, req, runs>>

\* process_component_async, lines 32-100: the pipeline runs and the task's
\* copy of the row is saved with all its fields, as 'completed' or 'failed'
ProcessComponentAsyncFinish(id, o) ==
    /\ task[id].pc = "started"
    /\ runs' = [runs EXCEPT ![id] = Append(@, "task")]
    /\ LET component ==
             IF o = "returned"
             THEN [task[id].component EXCEPT !.processing_status = "completed",
                                             !.geometry = "extracted",
                                             !.glb_file = TRUE]
             ELSE [task[id].component EXCEPT !.processing_status = "failed",
                                             !.processing_error = ErrorMessage(o)]
       IN /\ db' = [db EXCEPT ![id] = component]
          /\ task' = [task EXCEPT ![id] = [pc |-> "done", component |-> component]]
    /\ UNCHANGED <<env, conv, proj, pipeline, connected, req>>

\* the steps of request r after it has been received
RequestStep(r) ==
    \/ \E o \in ProcessCadFile(req[r].ext) : SerializerSave(r, o)
    \/ Delay(r)
    \/ ComponentSave(r)
    \/ Disconnect(r)
    \/ \E o \in ProcessCadFile(req[r].ext) : ProcessSynchronously(r, o)
    \/ Reconnect(r)

\* the steps of the Celery worker on the task of component id
TaskStep(id) ==
    \/ ProcessComponentAsyncStart(id)
    \/ \E o \in ProcessCadFile(task[id].component.original_file) :
          ProcessComponentAsyncFinish(id, o)

WebNext ==
    \/ \E r \in Requests, ext \in UploadedExtensions, too_large, is_async, health, docker \in BOOLEAN :
          Upload(r, ext, too_large, is_async, health, docker)
    \/ \E r \in Requests, ext \in UploadedExtensions \ {".txt"} :
          \E o \in ProcessCadFile(ext) : AdminAdd(r, ext, o)
    \/ \E r \in Requests, id \in Requests, field \in {"glb_file", "original_file", ""},
          ext \in UploadedExtensions : Update(r, id, field, ext)
    \/ \E r \in Requests : RequestStep(r)
    \/ \E id \in Requests : TaskStep(id)

WebSpec == WebInit /\ [][WebNext]_vars

\* a request that has been received is served to its end, and the worker
\* runs every task it is given
WebFairSpec ==
    /\ WebSpec
    /\ \A r \in Requests : WF_vars(RequestStep(r))
    /\ \A id \in Requests : WF_vars(TaskStep(id))

(***************************************************************************)
(* The projects application: ProjectViewSet.save on one project            *)
(* (src/backend/projects/views.py).  The placement fields of an            *)
(* AssemblyItem are one field position_x here.                             *)
(***************************************************************************)
\* the largest AssemblyItem id of the project
MaxItems == 3

\* the longest assembly_items array a request carries
MaxItemsData == 2

ItemIds == 1..MaxItems

Positions == {"p1", "p2"}

\* one entry of assembly_items: id is 0 when the entry has no 'id', and
\* MaxItems + 1 is an id no item of the project has; position_x is "absent"
\* when the entry has no such key
ItemData == [id : 0..(MaxItems + 1), position_x : {"p2", "absent"}]

\* the bodies of the save requests: with the key assembly_items and its
\* array, or without the key
SaveRequests ==
    {[has_key |-> TRUE, assembly_items |-> a] :
        a \in UNION {[1..n -> ItemData] : n \in 0..MaxItemsData}}
    \cup {[has_key |-> FALSE, assembly_items |-> << >>]}

\* line 314: request.data.get('assembly_items', [])
ItemsData(request) == IF request.has_key THEN request.assembly_items ELSE << >>

\* lines 327-332: the ids the request names
RequestedItemIds(items_data) ==
    {items_data[i].id : i \in 1..Len(items_data)} \ {0}

\* lines 334-360: the ids save deletes
DeletedItemIds(existing_item_ids, items_data) ==
    LET items_to_delete == existing_item_ids \ RequestedItemIds(items_data)
    IN IF items_to_delete = {} THEN {}
       ELSE IF Cardinality(items_to_delete) = Cardinality(existing_item_ids)
                 /\ Cardinality(existing_item_ids) > 0
            THEN IF Len(items_data) = 0 THEN items_to_delete ELSE {}
            ELSE items_to_delete

\* lines 362-407: the update loop from entry i on, over the rows left after the
\* deletion; entries without id, with an id already processed or with an id
\* that was not among the existing ones are skipped
RECURSIVE UpdateItems(_, _, _, _, _)
UpdateItems(rows, existing_item_ids, items_data, i, processed_ids) ==
    IF i > Len(items_data) THEN [rows |-> rows, processed_ids |-> processed_ids]
    ELSE LET item_data == items_data[i]
             item_id == item_data.id
         IN IF item_id = 0 \/ item_id \in processed_ids \/ item_id \notin existing_item_ids
                \/ item_id \notin DOMAIN rows
            THEN UpdateItems(rows, existing_item_ids, items_data, i + 1, processed_ids)
            ELSE UpdateItems(
                   [rows EXCEPT ![item_id] = IF item_data.position_x = "absent"
                                             THEN @ ELSE item_data.position_x],
                   existing_item_ids, items_data, i + 1, processed_ids \cup {item_id})

ProjectInit ==
    /\ variant = "backend"
    /\ TRIMESH_AVAILABLE = TRUE
    /\ PYTHONOCC_AVAILABLE = FALSE
    /\ CLOUDCONVERT_API_KEY = FALSE
    /\ fs = InitialFiles
    /\ dirs = {"uploads", "archive", "out", "ro", "tmp"}
    /\ pc = "idle"
    /\ calls = 0
    /\ arg_path = NoPath
    /\ extract_geometry = FALSE
    /\ copy_glb_to = NoPath
    /\ file_path = NoPath
    /\ mesh = NoneMesh
    /\ geometry_data = NoData
    /\ converted = NoPath
    /\ original_mesh = NoneMesh
    /\ result = [geometry_data |-> NoData, glb_path |-> NoPath]
    /\ raised = NoError
    /\ hist = NoHistory
    /\ backend = ""
    /\ step_file_path = NoPath
    /\ clock = 0
    /\ start_time = 0
    /\ download_url = FALSE
    /\ returned = NoPath
    /\ connected = TRUE
    /\ db = << >>
    /\ req = << >>
    /\ task = << >>
    /\ runs = << >>
    /\ assembly \in UNION {[ids -> Positions] : ids \in SUBSET ItemIds}
    /\ saved = [request |-> [has_key |-> FALSE, assembly_items |-> << >>],
                response |-> [status |-> "", updated |-> 0, deleted |-> 0, skipped |-> 0]]

\* POST /api/projects/{id}/save/ with the given body (lines 300-426)
Save(request) ==
    LET items_data == ItemsData(request)
        existing_item_ids == DOMAIN assembly
        deleted == DeletedItemIds(existing_item_ids, items_data)
        kept == [id \in existing_item_ids \ deleted |-> assembly[id]]
        updated == UpdateItems(kept, existing_item_ids, items_data, 1, {})
    IN /\ assembly' = updated.rows
       /\ saved' = [request |-> request,
                    response |-> [status |-> "saved",
                                  updated |-> Cardinality(updated.processed_ids),
                                  deleted |-> Cardinality(deleted),
                                  skipped |-> IF deleted = {} /\ Len(items_data) > 0
                                                 /\ existing_item_ids # {}
                                                 /\ existing_item_ids \cap RequestedItemIds(items_data) = {}
                                              THEN 2 * Len(items_data)
                                                   - Cardinality(updated.processed_ids)
                                              ELSE Len(items_data)
                                                   - Cardinality(updated.processed_ids)]]
       /\ UNCHANGED <<env, conv, web, pipeline>>

ProjectNext == \E request \in SaveRequests : Save(request)

ProjectSpec == ProjectInit /\ [][ProjectNext]_vars

(***************************************************************************)
(* Properties                                                              *)
(***************************************************************************)
InputExtension == Lower(arg_path.suffix)

\* process() has just returned to process_cad_file
JustProcessed ==
    /\ extract_geometry
    /\ raised = NoError
    /\ pc = "convert" \/ (pc = "done" /\ copy_glb_to = NoPath)

\* the simplification step of process() or of _convert_mesh_to_glb has just run
JustSimplified == pc \in {"analyse", "c_export"} /\ hist.steps # <<>>

LastStep == hist.steps[Len(hist.steps)]

\* the decimator raised, returned None or returned a mesh without triangles
DecimationFailed(o) ==
    o.status \in {"raise", "none"} \/ (o.status = "mesh" /\ NumFaces(o.mesh) = 0)

\* the decimator returned a mesh within the budget
DecimationMetTarget(o) ==
    o.status = "mesh" /\ NumFaces(o.mesh) > 0 /\ NumFaces(o.mesh) <= target_faces

Contains(d, v) == Leq3(d.bounding_box.min, v) /\ Leq3(v, d.bounding_box.max)

\* C1: for an existing .glb/.gltf input, process_cad_file(path, copy_glb_to=X)
\* ends with a file at X whose bytes are the input's bytes, whatever
\* extract_geometry is and whatever happened to the mesh in memory; the only
\* other ending is the operating system refusing the copy (X's directory
\* missing or not writable), which raises and writes nothing at X
C1_PassThrough ==
    (pc = "done" /\ Exists(fs, arg_path) /\ InputExtension \in GlbFormats
       /\ copy_glb_to # NoPath)
    => IF CopyError(fs, dirs, arg_path, copy_glb_to) = NoError
         THEN /\ raised = NoError
              /\ result.glb_path = copy_glb_to
              /\ fs[copy_glb_to] = fs[arg_path]
         ELSE /\ raised = CopyError(fs, dirs, arg_path, copy_glb_to)
              /\ copy_glb_to \notin hist.writes

\* C1 witness: an over-budget GLB was decimated in memory by process() and
\* then copied byte for byte
C1_Witness ==
    /\ pc = "done" /\ raised = NoError
    /\ arg_path = Path("uploads", "big", ".GLB")
    /\ extract_geometry /\ hist.decimations > 0
    /\ NumFaces(mesh) <= target_faces
    /\ copy_glb_to # NoPath
    /\ result.glb_path = copy_glb_to
    /\ fs[copy_glb_to] = fs[arg_path]

\* C2 as stated: after the simplification step a mesh that had more than 500
\* triangles has at most 500 and more than 0
C2_Original ==
    (JustSimplified /\ NumFaces(LastStep.before) > target_faces)
    => (NumFaces(mesh) <= target_faces /\ NumFaces(mesh) > 0)

\* C2 amended: after the simplification step a mesh that had more than 500
\* triangles has more than 0 triangles; it is the decimator's result, with at
\* most 500 triangles, when the decimator returned a non-empty mesh within the
\* budget, and it is the original mesh, still over budget, when the decimator
\* raised, returned None or returned an empty mesh
C2_Amended ==
    (JustSimplified /\ NumFaces(LastStep.before) > target_faces)
    => /\ NumFaces(mesh) > 0
       /\ DecimationMetTarget(LastStep.outcome)
            => (mesh = LastStep.outcome.mesh /\ NumFaces(mesh) <= target_faces)
       /\ DecimationFailed(LastStep.outcome)
            => (mesh = LastStep.before /\ NumFaces(mesh) > target_faces)

\* C2 witness: both cases of the amended claim, in process() and in
\* _convert_mesh_to_glb of one invocation
C2_Witness ==
    /\ pc = "c_export" /\ Len(hist.steps) = 2
    /\ hist.steps[1].stage = "process" /\ NumFaces(hist.steps[1].before) > target_faces
    /\ DecimationFailed(hist.steps[1].outcome)
    /\ hist.steps[2].stage = "convert" /\ NumFaces(hist.steps[2].before) > target_faces
    /\ DecimationMetTarget(hist.steps[2].outcome)
    /\ NumFaces(mesh) = target_faces

\* C3: for a mesh of at most 500 triangles the simplification step does not
\* invoke the decimator and leaves the mesh's vertices and triangles as they
\* were, in process() and in _convert_mesh_to_glb
C3_NoOp ==
    /\ hist.decimations = Cardinality({i \in DOMAIN hist.steps : hist.steps[i].outcome # Skipped})
    /\ (JustSimplified /\ NumFaces(LastStep.before) <= target_faces)
         => /\ LastStep.outcome = Skipped
            /\ mesh = LastStep.before
            /\ mesh.vertices = LastStep.before.vertices
            /\ mesh.faces = LastStep.before.faces

\* C3 witness: a mesh of exactly 500 triangles has passed both steps untouched
C3_Witness ==
    /\ pc = "c_export" /\ Len(hist.steps) = 2
    /\ \A i \in 1..2 : NumFaces(hist.steps[i].before) = target_faces
    /\ hist.decimations = 0
    /\ mesh = ExactMesh

\* C4: when the decimator raises, returns None or returns an empty mesh, the
\* original mesh is kept and the pipeline goes on: process() returns the
\* analysis of the original mesh, not the placeholder, and convert_to_glb
\* exports the original mesh (it fails only if the target cannot be written)
C4_SimplificationFailureIsNotFatal ==
    /\ (JustSimplified /\ DecimationFailed(LastStep.outcome))
         => (mesh = LastStep.before /\ raised = NoError)
    /\ \A i \in DOMAIN hist.steps :
         LET r == hist.steps[i] IN
         DecimationFailed(r.outcome) =>
           /\ r.after = r.before
           /\ (r.stage = "process" /\ pc # "analyse")
                => /\ hist.basic = ""
                   /\ result.geometry_data = AnalyseMesh(variant, r.before)
                   /\ result.geometry_data # BasicData
           /\ (r.stage = "convert" /\ pc = "done")
                => IF copy_glb_to.dir \in ReadOnlyDirs
                     THEN raised = Error("ValueError", "Failed to convert to GLB")
                     ELSE /\ raised = NoError
                          /\ result.glb_path = copy_glb_to
                          /\ fs[copy_glb_to] = ExportedGlb(r.before)

\* C4 witness: decimation failed in process() and again in
\* _convert_mesh_to_glb, and the call returned geometry and a GLB of the
\* original mesh
C4_Witness ==
    /\ pc = "done" /\ raised = NoError /\ Len(hist.steps) = 2
    /\ hist.steps[1].outcome.status = "raise"
    /\ hist.steps[2].outcome.status = "none"
    /\ result.geometry_data = AnalyseMesh(variant, BigMesh)
    /\ fs[copy_glb_to] = ExportedGlb(BigMesh)

\* C5 as stated: whenever process() returns geometry_data for a file whose
\* mesh was loaded, every vertex of the final mesh lies inside bounding_box,
\* on every return path
C5_BoundingBoxContainment ==
    (JustProcessed /\ mesh.kind = "Trimesh")
    => \A v \in AllVertices(mesh) : Contains(result.geometry_data, v)

\* C6: analysing a mesh without vertices or without computable bounds returns
\* exactly the unit box [0,0,0]-[1,1,1] with centre [0.5,0.5,0.5], volume 1.0
\* and no connection points, in every invocation, and process() returns it
\* to process_cad_file instead of raising (the step taken is the analysis,
\* not a step of another worker)
C6_DegenerateFallback ==
    [][(pc = "analyse" /\ pc' # pc /\ mesh.kind = "Trimesh"
          /\ (mesh.vertices = <<>> \/ Bounds(mesh) = None))
       => /\ result'.geometry_data =
               [bounding_box |->
                   [min |-> <<0, 0, 0>>, max |-> <<2, 2, 2>>, center |-> <<1, 1, 1>>],
                volume |-> 48, center |-> <<1, 1, 1>>, connection_points |-> <<>>]
          /\ geometry_data' = result'.geometry_data
          /\ raised' = NoError
          /\ pc' = AfterProcess]_vars

\* C6 witness: the second invocation of a run analysed a mesh with no
\* vertices and got the fallback record
C6_Witness ==
    /\ JustProcessed /\ calls = 2
    /\ mesh = EmptyMesh
    /\ result.geometry_data.volume = 48
    /\ result.geometry_data.connection_points = <<>>

Sides(d) == {d.connection_points[i].side : i \in DOMAIN d.connection_points}

OutwardNormal(side) ==
    CASE side = "top"    -> <<0, 0, 1>>
      [] side = "bottom" -> <<0, 0, -1>>
      [] side = "left"   -> <<-1, 0, 0>>
      [] side = "right"  -> <<1, 0, 0>>
      [] side = "front"  -> <<0, -1, 0>>
      [] side = "back"   -> <<0, 1, 0>>

\* C7 as stated: every successfully analysed mesh has exactly six connection
\* points, one per side, each with the outward axis-aligned unit normal, the
\* bottom one at the box minimum and the top one at the box maximum
C7_SixConnectionPoints ==
    (JustProcessed /\ hist.basic = "" /\ hist.analysed # NoneMesh)
    => LET d == result.geometry_data IN
       /\ Len(d.connection_points) = 6
       /\ Sides(d) = {"top", "bottom", "left", "right", "front", "back"}
       /\ \A i \in DOMAIN d.connection_points :
            LET c == d.connection_points[i] IN
            /\ c.normal = OutwardNormal(c.side)
            /\ c.side = "bottom" => c.position = d.bounding_box.min
            /\ c.side = "top" => c.position = d.bounding_box.max

\* C8 as stated: every geometry_data process() returns has volume >= 0, and a
\* loaded geometry that defines no volume yields volume 0.0
C8_VolumeNonNegative ==
    JustProcessed
    => /\ result.geometry_data.volume >= 0
       /\ (mesh # NoneMesh /\ ~HasVolume(FlattenScene(mesh)))
            => result.geometry_data.volume = 0

\* C9 as stated: a file whose extension is not supported makes
\* process_cad_file fail with the unsupported-format error, without running a
\* parser and without creating a directory or a file
C9_UnsupportedRejected ==
    (pc = "done" /\ Exists(fs, arg_path) /\ InputExtension \notin SupportedFormats
       /\ (extract_geometry \/ copy_glb_to # NoPath))
    => /\ raised = Error("ValueError", "Unsupported file format. Supported: ...")
       /\ hist.loads = 0
       /\ hist.mkdirs = {}
       /\ hist.writes = {}

\* C10 as stated: with trimesh present, a file the parser rejects (or a later
\* failure on the loaded file) makes process() raise; it never returns the
\* unit-cube placeholder
C10_ParseFailurePropagates ==
    (extract_geometry /\ TRIMESH_AVAILABLE /\ pc \in {"convert", "done"}
       /\ hist.basic \in {"load failed", "not a mesh", "analysis failed"})
    => (raised # NoError /\ result.geometry_data # BasicData)

\* no STEP conversion backend is configured: the backend variant converts
\* through the service only and has no API key, the root variant reads STEP
\* through pythonocc only and has none
NoStepBackend ==
    IF variant = "backend" THEN ~CLOUDCONVERT_API_KEY ELSE ~PYTHONOCC_AVAILABLE

\* C11 as stated: with no STEP conversion backend, process() on a .step/.stp
\* file fails with the backend-unavailable error and returns no geometry, in
\* both variants
C11_BackendUnavailable ==
    (extract_geometry /\ pc \in {"convert", "done"} /\ Exists(fs, arg_path)
       /\ InputExtension \in StepFormats /\ NoStepBackend)
    => /\ raised = Error("ValueError",
                         "STEP file conversion failed: CloudConvert API key not configured")
       /\ result.geometry_data = NoData

\* the vertex buffer of a flattened scene when every node's transform is
\* applied to its geometry
RECURSIVE Placed(_)
Placed(nodes) ==
    IF nodes = <<>> THEN <<>>
    ELSE LET last == nodes[Len(nodes)]
         IN  Placed(SubSeq(nodes, 1, Len(nodes) - 1))
             \o [j \in DOMAIN last.geometry.vertices |->
                    Add(last.transform, last.geometry.vertices[j])]

MeshNodes(m) == SelectSeq(m.graph, IsTrimeshNode)

\* the step taken flattens a scene that has mesh nodes
FlattensScene ==
    /\ pc \in {"flatten", "c_flatten"}
    /\ pc' # pc
    /\ mesh.kind = "Scene"
    /\ MeshNodes(mesh) # <<>>

\* C14 as stated: flattening a scene puts every node's geometry at the node's
\* transform, so copies of one geometry under different translations do not
\* coincide
C14_TransformsApplied ==
    [][FlattensScene => mesh'.vertices = Placed(MeshNodes(mesh))]_vars

\* C15: flattening a scene that has mesh nodes gives a Trimesh whose vertex and
\* triangle counts are the sums over the mesh nodes (a geometry under k nodes
\* counts k times), nodes with other geometry add nothing and raise nothing,
\* and every triangle index points into the concatenated vertex buffer
C15_FlattenCounts ==
    [][FlattensScene =>
         /\ mesh'.kind = "Trimesh"
         /\ Len(mesh'.vertices) =
              SumSeq([i \in DOMAIN MeshNodes(mesh) |->
                        Len(MeshNodes(mesh)[i].geometry.vertices)])
         /\ NumFaces(mesh') =
              SumSeq([i \in DOMAIN MeshNodes(mesh) |-> NumFaces(MeshNodes(mesh)[i].geometry)])
         /\ \A t \in FaceSet(mesh'.faces) : \A k \in 1..3 : t[k] \in 1..Len(mesh'.vertices)
         /\ raised' = NoError
         /\ pc' \in {"simplify", "analyse", "c_simplify"}]_vars

\* C15 witness: the scene of two triangle nodes and one point-cloud node has
\* been flattened to six vertices and two triangles, the second triangle on
\* the second node's vertices
C15_Witness ==
    /\ pc \in {"simplify", "analyse", "c_simplify"}
    /\ arg_path = Path("uploads", "scene", ".gltf")
    /\ hist.steps = <<>>
    /\ mesh.kind = "Trimesh"
    /\ Len(mesh.vertices) = 6
    /\ mesh.faces = Explicit(<< <<1, 2, 3>>, <<4, 5, 6>> >>)

\* C16 as stated: a loaded scene none of whose nodes is a mesh makes the
\* invocation fail, in process() and in convert_to_glb; no geometry data and
\* no GLB come back for it
C16_EmptySceneFails ==
    (pc \in {"convert", "done"} /\ hist.loads > 0 /\ mesh.kind = "Scene"
       /\ MeshNodes(mesh) = <<>>)
    => /\ raised # NoError
       /\ result.geometry_data = NoData
       /\ result.glb_path = NoPath

\* C17 as stated: an invocation on a STEP input loads the artifact converted
\* from its own input, whatever other invocations run at the same time
C17_OwnArtifact ==
    (pc = "flatten" /\ converted # NoPath /\ file_path = converted)
    => mesh = Decode(Tessellated(fs[arg_path]))

\* a directory the caller handed to process_cad_file
CallerManaged(d) == copy_glb_to # NoPath /\ d = copy_glb_to.dir

\* C18 as stated: when process_cad_file on a STEP input has returned or
\* raised, the file its conversion wrote is gone or lies in a directory the
\* caller manages
C18_ArtifactRemoved ==
    (pc = "done" /\ InputExtension \in StepFormats /\ converted # NoPath)
    => (~Exists(fs, converted) \/ CallerManaged(converted.dir))

\* C19: once process() or convert_to_glb() on a STEP input has returned or
\* raised, file_path is the path the processor was built with; it is the
\* converted file's path only inside the nested load, analysis or export
C19_FilePathRestored ==
    /\ (InputExtension \in StepFormats /\ pc \in {"convert", "done"}) => file_path = arg_path
    /\ file_path # arg_path
         => /\ InputExtension \in StepFormats
            /\ file_path = converted
            /\ pc \in {"load", "flatten", "simplify", "analyse",
                       "c_flatten", "c_simplify", "c_export"}

\* C19 witness: a STEP file was converted, analysed under the converted
\* file's path and exported, and file_path is the STEP path again
C19_Witness ==
    /\ pc = "done" /\ raised = NoError
    /\ InputExtension \in StepFormats
    /\ converted # NoPath /\ converted # arg_path
    /\ hist.loads > 0 /\ hist.analysed # NoneMesh
    /\ result.glb_path = copy_glb_to /\ copy_glb_to # NoPath
    /\ file_path = arg_path

\* convert_to_glb was entered: process() was not asked for or has returned
ConvertRan ==
    pc = "done" /\ copy_glb_to # NoPath /\ (~extract_geometry \/ result.geometry_data # NoData)

\* C20 as stated: convert_to_glb never succeeds with a mesh of zero triangles,
\* and when the target directory cannot be written it fails with the export
\* error and gives no glb_path
C20_ExportRejectsEmpty ==
    /\ hist.exported # NoneMesh => NumFaces(hist.exported) > 0
    /\ (ConvertRan /\ variant = "backend" /\ copy_glb_to.dir \in ReadOnlyDirs)
         => /\ raised = Error("ValueError", "Failed to convert to GLB")
            /\ result.glb_path = NoPath

\* C12 as stated: a STEP conversion function that returns, returns the path
\* of an existing file with bytes in it; an absent or zero-byte result is an
\* error
C12_NonEmptyOutput ==
    (pc = "returned" /\ raised = NoError)
    => (returned # NoPath /\ Exists(fs, returned) /\ Size(fs[returned]) > 0)

\* C13 as stated: a conversion through the service that is not complete 300
\* seconds after it started (counted from start_time, after the upload) ends
\* with the timeout error, and has written nothing at the output path
C13_HardTimeout ==
    (pc = "returned" /\ backend = "cloudconvert" /\ clock - start_time > max_wait)
    => /\ raised = CloudConvertTimeout
       /\ returned = NoPath
       /\ ConvertedPath(step_file_path) \notin hist.writes

\* C21 as stated: for a STEP input the export alone invokes the converter:
\* process_cad_file(step, extract_geometry=False, copy_glb_to=X) ends either
\* with a converted artifact and the GLB made from it, or with the
\* converter's own failure, as it does when extract_geometry is True
C21_ExportConvertsStep ==
    (pc = "done" /\ variant = "backend" /\ ~extract_geometry /\ copy_glb_to # NoPath
       /\ InputExtension \in StepFormats /\ Exists(fs, arg_path))
    => \/ /\ converted # NoPath
          /\ raised = NoError => fs[copy_glb_to].gen = "trimesh"
       \/ raised \in {Error("ValueError", "STEP file conversion failed"),
                      Error("ValueError",
                            "STEP file conversion failed: CloudConvert API key not configured")}

\* C22 as stated: when geometry and GLB are both requested for an STL, OBJ or
\* STEP input and both come back, the mesh written to the GLB is the mesh the
\* geometry_data was computed from, and geometry_data is not the placeholder
C22_SameMeshAnalysedAndExported ==
    (pc = "done" /\ raised = NoError /\ extract_geometry /\ copy_glb_to # NoPath
       /\ InputExtension \in {".stl", ".obj", ".step", ".stp"}
       /\ hist.exported # NoneMesh)
    => /\ hist.basic = ""
       /\ hist.analysed = hist.exported
       /\ result.geometry_data = AnalyseMesh(variant, hist.exported)

(***************************************************************************)
(* The components application                                              *)
(***************************************************************************)
\* request r is a synchronous upload that has created its component
SynchronousUpload(r) ==
    req[r].view = "upload" /\ ~req[r].use_async /\ req[r].id # 0

\* request r is between its disconnect and its reconnect of the handler
InDisconnectedSection(r) == req[r].pc \in {"disconnected", "processed"}

\* who has run the pipeline on component id
Ran(id) == {runs[id][i] : i \in 1..Len(runs[id])}

\* component id exists and its persisted status is terminal
Settled(id) ==
    id \in 1..Len(db) /\ db[id].processing_status \in {"completed", "failed"}

\* C23: in a synchronous upload the pipeline runs exactly once for the new
\* component: once the view has processed the file, the view's run is the
\* only run, the post_save handler has not processed the file as well.
C23_ProcessedOnce ==
    \A r \in Requests :
        (SynchronousUpload(r) /\ req[r].pc \in {"processed", "done"})
        => runs[req[r].id] = <<"view">>

\* C24: after an asynchronous upload, under every interleaving of the request
\* thread and the task, the persisted processing_status eventually is
\* 'completed' or 'failed' for good, and the request's save that sets
\* 'processing' does not overwrite the geometry the task has written.
C24_AsyncUploadSettles ==
    /\ \A id \in Requests :
          [](task[id].pc = "queued" => <>[]Settled(id))
    /\ [][\A r \in Requests :
            (/\ req[r].pc = "delayed"
             /\ req'[r].pc = "done"
             /\ "task" \in Ran(req[r].id)
             /\ db[req[r].id].geometry = "extracted")
            => db'[req[r].id].geometry = "extracted"]_vars

\* C25: when the synchronous processing of an upload raises, the persisted
\* component ends as 'failed' with the message in processing_error: the row
\* holds the failure record the view's exception handler saved.
C25_FailureRecorded ==
    \A r \in Requests :
        (SynchronousUpload(r) /\ req[r].pc = "done" /\ req[r].exc # NoMessage)
        => /\ db[req[r].id].processing_status = "failed"
           /\ db[req[r].id].processing_error = ErrorMessage(req[r].exc)

\* C26: under concurrent requests, a component created by a request that
\* relies on the post_save handler is not left unprocessed in 'pending', and
\* the handler is not connected while a request is inside its own
\* disconnected section.
C26_HandlerConnectedWhenNeeded ==
    /\ \A r \in Requests :
          (req[r].view = "admin" /\ req[r].pc = "done")
          => db[req[r].id].processing_status # "pending"
    /\ (\E r \in Requests : InDisconnectedSection(r)) => ~connected

\* C27: an update with a new original_file of an allowed type re-runs the
\* pipeline on it and leaves the component 'completed' with regenerated
\* geometry and GLB, or 'failed' with the error recorded.
C27_UpdateReprocesses ==
    \A r \in Requests :
        (/\ req[r].view = "update"
         /\ req[r].field = "original_file"
         /\ req[r].ext \in CAD_ALLOWED_EXTENSIONS
         /\ req[r].pc = "done")
        => \/ /\ req[r].response.status = 200
              /\ db[req[r].id].original_file = req[r].ext
              /\ db[req[r].id].processing_status = "completed"
              /\ db[req[r].id].geometry = "extracted"
              /\ db[req[r].id].glb_file
           \/ /\ req[r].response.status = 500
              /\ db[req[r].id].original_file = req[r].ext
              /\ db[req[r].id].processing_status = "failed"
              /\ db[req[r].id].processing_error # NoMessage

\* C28: the STEP availability pre-check of upload agrees with the pipeline's
\* converter: a STEP upload is rejected as 'STEP file conversion is not
\* available' exactly when convert_step_file has no usable backend, which is
\* when no CloudConvert API key is configured.
C28_PrecheckAgrees ==
    \A r \in Requests :
        (req[r].view = "upload" /\ req[r].ext \in StepFormats)
        => (req[r].response.error = "STEP file conversion is not available"
              <=> ~CLOUDCONVERT_API_KEY)

\* C29: whenever a component's persisted processing_status is 'completed',
\* its processing_error is empty, whatever attempts came before.
C29_CompletedHasNoError ==
    \A id \in 1..Len(db) :
        db[id].processing_status = "completed" => db[id].processing_error = NoMessage

(***************************************************************************)
(* The projects application                                                *)
(***************************************************************************)
\* C30: the save operation never creates assembly items; it removes all of
\* a project's existing items only when the request explicitly supplies an
\* empty assembly_items array; a request whose items carry no id of an
\* existing item deletes nothing; and a partial request deletes exactly the
\* existing items whose ids it omits.
C30_SaveDeletesOnlyOmitted ==
    [][LET before == DOMAIN assembly
           after == DOMAIN assembly'
           items_data == ItemsData(saved'.request)
           requested == RequestedItemIds(items_data)
       IN /\ after \subseteq before
          /\ (before # {} /\ after = {})
                => (saved'.request.has_key /\ saved'.request.assembly_items = << >>)
          /\ (Len(items_data) > 0 /\ requested \cap before = {}) => after = before
          /\ requested \cap before # {} => after = before \cap requested]_vars

====
